---- MODULE Spec2Model ----
(***************************************************************************)
(* A model of src/src/collectors/tsk_collector.py (class TSKCollector):    *)
(* partition selection, path resolution, wildcard pattern handling, the    *)
(* depth-bounded recursive search and the collision-safe extraction.       *)
(*                                                                         *)
(* Text is modelled as sequences of one-character strings, so that         *)
(* lower(), endswith(), basename(), splitext() and re.sub() are computed   *)
(* and not assumed.  The three external tools (mmls, fls, icat) are the    *)
(* environment: their output is drawn from bounded sets.  The web front    *)
(* end of src/web_app.py, which starts the pipelines that use the class,   *)
(* is modelled at the grain of the external invocations of each pipeline.  *)
(***************************************************************************)
EXTENDS Integers, Sequences, FiniteSets, TLC

(***************************************************************************)
(* Bounds of the model.                                                    *)
(***************************************************************************)
MaxLines == 3

(***************************************************************************)
(* The state: of _find_main_partition (pvars), of _search_recursive and    *)
(* the volume (svars), and of extract_files (evars); pc is the place of    *)
(* the call in hand.                                                       *)
(***************************************************************************)
VARIABLES tool_ok, mmls, li, best_offset, best_size, partition_offset, ppc

pvars == <<tool_ok, mmls, li, best_offset, best_size, partition_offset, ppc>>

VARIABLES vol, target_filename, max_depth, stack, visited, matches, listed, pc

svars == <<vol, target_filename, max_depth, stack, visited, matches, listed>>

VARIABLES patterns, outfs, mkdir_ok, sink_fail_at, sink, user_folders, extracted,
          pi, tasks, ti, cur, mi, pat_extracted, attempted, origin, pat_origin, last,
          faults

evars == <<patterns, outfs, mkdir_ok, sink_fail_at, sink, user_folders, extracted,
           pi, tasks, ti, cur, mi, pat_extracted, attempted, origin, pat_origin, last,
           faults>>

\* What the run has done to the outside, kept beside the program's state:
\*   calls         the external invocations of the call in hand (the
\*                 construction, the user enumeration, or one call of
\*                 _extract_pattern), in order; each begins the list anew
\*   mmls_calls    how many times the partition lister has been run
\*   enumerations  how many times _find_user_folders has been called
VARIABLES calls, mmls_calls, enumerations

gvars == <<calls, mmls_calls, enumerations>>

\* The web front end (src/web_app.py):
\*   inbox      the start_processing messages for the image that the
\*              websocket has not yet received
\*   pipelines  for each message received, where its run_etl_pipeline task
\*              is: st its place, step the external invocations its
\*              pipeline thread has completed, inflight whether one is
\*              running now, chosen and path the destination its
\*              _extract_file has settled on
\*   es_count   the records in the forensic-* indices
VARIABLES inbox, pipelines, es_count

wvars == <<inbox, pipelines, es_count>>

vars == <<pvars, svars, pc, evars, gvars, wvars>>

(***************************************************************************)
(* Python values.                                                          *)
(***************************************************************************)
\* None, where the code compares it with integers or strings only by truthiness
None == -1

Truthy(v) == v # None /\ v # 0

(***************************************************************************)
(* _run_command and subprocess.run: an external invocation, as the command *)
(* line shows it: the tool, the volume offset given with -o (None for      *)
(* mmls, which takes none), the identifier argument (None when there is    *)
(* none) and the method that builds the command.                           *)
(***************************************************************************)
Invocation(tool, off, arg, fn) == [tool |-> tool, off |-> off, arg |-> arg, fn |-> fn]

\* line 34: "mmls.exe" "<image>"
MmlsCmd == Invocation("mmls", None, None, "_find_main_partition")

\* the command of lines 89-91 with -o 0 in place of the offset of the engine
FlsCmdOffsetZero(off, inode, fn) == Invocation("fls", 0, inode, fn)

\* lines 89-91, 131, 159, 312: "fls.exe" -o <partition_offset> "<image>" [<inode>]
FlsCmd(off, inode, fn) == Invocation("fls", off, inode, fn)

\* line 364: "icat.exe" -o <partition_offset> "<image>" <inode> > "<output_path>"
IcatCmd(off, inode) == Invocation("icat", off, inode, "_extract_file")

NoCalls ==
    /\ calls = <<>>
    /\ mmls_calls = 0
    /\ enumerations = 0

(***************************************************************************)
(* str operations, on sequences of one-character strings.                  *)
(***************************************************************************)
UpperChars == <<"A","B","C","D","E","F","G","H","I","J","K","L","M",
                "N","O","P","Q","R","S","T","U","V","W","X","Y","Z">>

LowerChars == <<"a","b","c","d","e","f","g","h","i","j","k","l","m",
                "n","o","p","q","r","s","t","u","v","w","x","y","z">>

LowerChar(c) ==
    IF \E i \in 1..Len(UpperChars) : UpperChars[i] = c
    THEN LowerChars[CHOOSE i \in 1..Len(UpperChars) : UpperChars[i] = c]
    ELSE c

\* str.lower()
lower(s) == [i \in 1..Len(s) |-> LowerChar(s[i])]

\* str.endswith(suffix)
endswith(s, suffix) ==
    /\ Len(suffix) <= Len(s)
    /\ SubSeq(s, Len(s) - Len(suffix) + 1, Len(s)) = suffix

\* str.startswith(prefix)
startswith(s, prefix) ==
    /\ Len(prefix) <= Len(s)
    /\ SubSeq(s, 1, Len(prefix)) = prefix

(***************************************************************************)
(* _find_main_partition: the partition lister's output and its scan.       *)
(*                                                                         *)
(* A line of mmls output is kept as what the code reads of it:             *)
(*   nf     the number of whitespace-separated fields (len(line.split())), *)
(*   f2, f4 fields 2 and 4, each [int |-> whether int() accepts it,        *)
(*          val |-> its value],                                            *)
(*   kw     the keywords the line contains as substrings.                  *)
(***************************************************************************)

SkipWords == {"Meta", "---", "Slot", "Unallocated"}

FsWords == {"NTFS", "exFAT"}

SectorSize == 512

GiB == 1024 * 1024 * 1024

IntTok(v) == [int |-> TRUE, val |-> v]

BadTok == [int |-> FALSE, val |-> 0]

MkLine(nf, f2, f4, kw) == [nf |-> nf, f2 |-> f2, f4 |-> f4, kw |-> kw]

\* start sectors and lengths (in sectors) of the synthetic tables; 2097152
\* sectors of 512 bytes are exactly 1 GiB
Starts == {0, 2048, 4096}

Lengths == {2097151, 2097152, 3000000}

MmlsLines ==
    {MkLine(6, IntTok(s), IntTok(l), {"NTFS", "exFAT"}) : s \in Starts, l \in Lengths}
    \cup {MkLine(6, IntTok(2048), IntTok(3000000), kw) :
            kw \in {{"NTFS"}, {"exFAT"}, {}, {"NTFS", "Meta"}, {"NTFS", "Unallocated"},
                    {"Slot"}, {"---"}}}
    \cup {MkLine(4, IntTok(2048), IntTok(3000000), {"NTFS"}),
          MkLine(5, IntTok(4096), IntTok(3000000), {"NTFS"}),
          MkLine(6, BadTok, IntTok(3000000), {"NTFS"}),
          MkLine(6, IntTok(2048), BadTok, {"NTFS"})}

SeqsUpTo(S, n) == UNION {[1..k -> S] : k \in 0..n}

\* line 45: header, separator and unallocated lines are skipped
IsSkipped(line) == line.kw \cap SkipWords # {}

\* lines 57-59: size_gb = (length * 512) / (1024**3); size_gb < 1
TooSmall(length) == length * SectorSize < GiB

\* line 65 with >= in place of >: a later line of equal length replaces the earlier one
IsLargerOrEqual(length, size) == length >= size

\* line 65: if length > best_size
IsLarger(length, size) == length > size

\* One iteration of the loop of lines 43-70: the new (best_offset, best_size).
ScanLine(line, bo, bs) ==
    IF IsSkipped(line) THEN <<bo, bs>>
    ELSE IF line.nf < 5 THEN <<bo, bs>>
    ELSE IF ~line.f2.int \/ ~line.f4.int THEN <<bo, bs>>      \* ValueError
    ELSE IF TooSmall(line.f4.val) THEN <<bo, bs>>
    ELSE IF line.kw \cap FsWords # {} /\ IsLarger(line.f4.val, bs)
         THEN <<line.f2.val, line.f4.val>>
    ELSE <<bo, bs>>

\* lines 11-14: the engine before _find_main_partition; mmls is what the
\* partition lister will print, nothing when the tool is missing or unusable
\* (the shell writes its complaint to stderr and _run_command returns '')
PartitionInit ==
    /\ tool_ok \in BOOLEAN
    /\ mmls \in IF tool_ok THEN SeqsUpTo(MmlsLines, MaxLines) ELSE {<<>>}
    /\ li = 1
    /\ best_offset = None
    /\ best_size = 0
    /\ partition_offset = None
    /\ ppc = "new"

PartitionIdle ==
    /\ tool_ok = TRUE
    /\ mmls = <<>>
    /\ li = 1
    /\ best_offset = None
    /\ best_size = 0
    /\ partition_offset = 2048
    /\ ppc = "done"

\* lines 33-41: mmls is run and its output is taken
PartitionCall ==
    /\ ppc = "new"
    /\ pc # "blocked"
    /\ calls' = <<MmlsCmd>>
    /\ mmls_calls' = mmls_calls + 1
    /\ ppc' = "scan"
    /\ UNCHANGED <<tool_ok, mmls, li, best_offset, best_size, partition_offset>>
    /\ UNCHANGED <<svars, pc, evars, enumerations>>
    /\ UNCHANGED wvars

\* lines 43-70, one line of the output
PartitionScan ==
    /\ ppc = "scan"
    /\ li <= Len(mmls)
    /\ LET r == ScanLine(mmls[li], best_offset, best_size)
       IN /\ best_offset' = r[1]
          /\ best_size' = r[2]
    /\ li' = li + 1
    /\ UNCHANGED <<tool_ok, mmls, partition_offset, ppc>>
    /\ UNCHANGED <<svars, pc, evars, gvars>>
    /\ UNCHANGED wvars

\* lines 72-77
PartitionSelect ==
    /\ ppc = "scan"
    /\ li > Len(mmls)
    /\ partition_offset' = IF Truthy(best_offset) THEN best_offset ELSE 0
    /\ ppc' = "done"
    /\ UNCHANGED <<tool_ok, mmls, li, best_offset, best_size>>
    /\ UNCHANGED <<svars, pc, evars, gvars>>
    /\ UNCHANGED wvars

(***************************************************************************)
(* C6: after construction, partition_offset is the start sector of the     *)
(* first-listed line of largest length among the lines that are not        *)
(* header/meta/unallocated lines, have at least 5 fields with integer      *)
(* fields 2 and 4, are at least 1 GiB (exactly 1 GiB qualifies) and are    *)
(* labelled NTFS or exFAT; and 0 when no line qualifies.                   *)
(***************************************************************************)
C6_Qualifies(line) ==
    /\ line.kw \cap {"Meta", "---", "Slot", "Unallocated"} = {}
    /\ line.nf >= 5
    /\ line.f2.int
    /\ line.f4.int
    /\ line.f4.val * 512 >= 1073741824
    /\ line.kw \cap {"NTFS", "exFAT"} # {}

C6_Candidates == {i \in 1..Len(mmls) : C6_Qualifies(mmls[i])}

C6_Expected ==
    IF C6_Candidates = {} THEN 0
    ELSE LET w == CHOOSE i \in C6_Candidates :
                    \A j \in C6_Candidates :
                        \/ mmls[j].f4.val < mmls[i].f4.val
                        \/ mmls[j].f4.val = mmls[i].f4.val /\ i <= j
         IN mmls[w].f2.val

C6_LargestPartitionSelected ==
    ppc = "done" => partition_offset = C6_Expected

\* two qualifying lines of exactly 1 GiB with different start sectors, a
\* non-qualifying line between or around them, and the first one selected
C6_Witness ==
    /\ ppc = "done"
    /\ \E i, j \in C6_Candidates :
          /\ i < j
          /\ mmls[i].f4.val = 2097152
          /\ mmls[j].f4.val = 2097152
          /\ mmls[i].f2.val # mmls[j].f2.val
          /\ partition_offset = mmls[i].f2.val
          /\ partition_offset # 0
    /\ \E k \in 1..Len(mmls) : ~C6_Qualifies(mmls[k])

(***************************************************************************)
(* The volume, as the directory lister (fls) shows it.                     *)
(*                                                                         *)
(* vol maps a directory identifier to the lines fls prints for it; None    *)
(* is the call without an identifier (the volume root).  A line            *)
(* "<kind> [* ]<n>-<n>[-<n>]:\t<name>" is kept as                          *)
(*   kind   the type marker, "d/d" or "r/r",                               *)
(*   star   whether the deleted marker "* " follows the type marker,       *)
(*   inode  the first number of the content identifier,                    *)
(*   parts  how many numbers the content identifier has (2 or 3),          *)
(*   name   the entry name after the colon.                                *)
(***************************************************************************)

NDirs == 4

MaxExtraEdges == 2

MaxDepthBound == 3

\* the depth of Python's call stack at which search_dir raises RecursionError
RecursionLimit == 8

Star == <<"*">>

Dot == <<".">>

DirEntry(inode, name) ==
    [kind |-> "d/d", star |-> FALSE, inode |-> inode, parts |-> 3, name |-> name]

FileEntry(inode, name) ==
    [kind |-> "r/r", star |-> FALSE, inode |-> inode, parts |-> 3, name |-> name]

\* the output of fls for a directory identifier, split into lines; an
\* identifier the volume does not have gives no output
Fls(v, inode) == IF inode \in DOMAIN v THEN v[inode] ELSE <<>>

\* re.search(r'd/d (\d+)-', line): the identifier of a directory line
DirInode(e) == IF e.kind = "d/d" /\ ~e.star THEN e.inode ELSE None

\* lines 328-333 without lower(): the names are compared as they are written
RecursiveNameMatchCaseSensitive(target, name) ==
    \/ target = Star
    \/ name = target
    \/ /\ startswith(target, Star \o Dot)
       /\ endswith(name, Dot \o SubSeq(target, 3, Len(target)))

\* lines 328-333: the filename test of search_dir
RecursiveNameMatch(target, name) ==
    \/ target = Star
    \/ lower(name) = lower(target)
    \/ /\ startswith(target, Star \o Dot)
       /\ endswith(lower(name), Dot \o lower(SubSeq(target, 3, Len(target))))

\* line 306, mutated: the depth bound is not tested
ShouldReturnNoDepth(inode, depth, md, vis) == inode \in vis

\* line 306, mutated: the guard is missing
ShouldReturnNever(inode, depth, md, vis) == FALSE

\* line 306: if depth > max_depth or inode in visited: return
ShouldReturn(inode, depth, md, vis) == depth > md \/ inode \in vis

\* lines 329 and 333 with insert(0, ...): the match is put in front
AppendMatchFront(list, e) == <<e>> \o list

\* lines 329 and 333: matches.append((info, name))
AppendMatch(list, e) == Append(list, e)

Frame(inode, depth) == [inode |-> inode, depth |-> depth, i |-> 1]

Top == stack[Len(stack)]

\* lines 302-303 and 342: matches = [], visited = set(), search_dir(start_inode, 0)
SearchCall(start, md) ==
    /\ matches' = <<>>
    /\ IF ShouldReturn(start, 0, md, {})
       THEN /\ stack' = <<>>
            /\ visited' = {}
            /\ listed' = <<>>
       ELSE /\ stack' = <<Frame(start, 0)>>
            /\ visited' = {start}
            /\ listed' = <<<<start, 0>>>>

\* lines 315-340: search_dir reads one line of the listing of its directory
SearchLine ==
    /\ pc = "search"
    /\ stack # <<>>
    /\ Top.i <= Len(Fls(vol, Top.inode))
    /\ LET e == Fls(vol, Top.inode)[Top.i]
           sub == DirInode(e)
           next == [stack EXCEPT ![Len(stack)].i = @ + 1]
       IN /\ matches' = IF e.kind = "r/r" /\ RecursiveNameMatch(target_filename, e.name)
                        THEN AppendMatch(matches, e)
                        ELSE matches
          /\ IF sub = None \/ ShouldReturn(sub, Top.depth + 1, max_depth, visited)
             THEN /\ stack' = next
                  /\ UNCHANGED <<visited, listed, pc>>
             ELSE IF Len(stack) >= RecursionLimit
             THEN /\ pc' = "raise"
                  /\ UNCHANGED <<stack, visited, listed>>
             ELSE /\ stack' = Append(next, Frame(sub, Top.depth + 1))
                  /\ visited' = visited \cup {sub}
                  /\ listed' = Append(listed, <<sub, Top.depth + 1>>)
                  /\ UNCHANGED pc
          /\ calls' = IF sub = None \/ ShouldReturn(sub, Top.depth + 1, max_depth, visited)
                          \/ Len(stack) >= RecursionLimit
                       THEN calls
                       ELSE Append(calls, FlsCmd(partition_offset, sub, "search_dir"))
    /\ UNCHANGED <<vol, target_filename, max_depth>>
    /\ UNCHANGED <<pvars, evars, mmls_calls, enumerations>>
    /\ UNCHANGED wvars

\* the end of the loop of line 315: search_dir returns to its caller
SearchReturn ==
    /\ pc = "search"
    /\ stack # <<>>
    /\ Top.i > Len(Fls(vol, Top.inode))
    /\ stack' = SubSeq(stack, 1, Len(stack) - 1)
    /\ UNCHANGED <<vol, target_filename, max_depth, visited, matches, listed, pc>>
    /\ UNCHANGED <<pvars, evars, gvars>>
    /\ UNCHANGED wvars

(***************************************************************************)
(* _search_recursive on its own: the listings are drawn from the graphs    *)
(* over the directories 1..NDirs that hold the chain 1 -> 2 -> ... and at  *)
(* most MaxExtraEdges further edges (back, forward or self edges, so       *)
(* cycles and directories reachable along paths of different lengths);     *)
(* every directory d holds the file 100+d named "h".                       *)
(***************************************************************************)
NameH == <<"h">>

NameDir == <<"s","u","b">>

GraphListing(d, ex, first) ==
    LET file == <<FileEntry(100 + d, NameH)>>
        chain == IF d < NDirs THEN <<DirEntry(d + 1, NameDir)>> ELSE <<>>
        extra == IF ex[d] = 0 THEN <<>> ELSE <<DirEntry(ex[d], NameDir)>>
    IN IF first THEN extra \o file \o chain ELSE file \o chain \o extra

Graphs ==
    {[d \in 1..NDirs |-> GraphListing(d, ex, first)] :
        ex \in {f \in [1..NDirs -> 0..NDirs] :
                    Cardinality({d \in 1..NDirs : f[d] # 0}) <= MaxExtraEdges},
        first \in BOOLEAN}

SearchInit ==
    /\ vol \in Graphs
    /\ target_filename \in {NameH, Star}
    /\ max_depth \in 0..MaxDepthBound
    /\ pc = "search"
    /\ matches = <<>>
    /\ stack = <<Frame(1, 0)>>
    /\ visited = {1}
    /\ listed = <<<<1, 0>>>>

\* line 343: return matches
SearchDone ==
    /\ pc = "search"
    /\ stack = <<>>
    /\ pc' = "done"
    /\ UNCHANGED <<svars, pvars, evars, gvars>>
    /\ UNCHANGED wvars


(***************************************************************************)
(* C8: with the start directory at depth 0, _search_recursive never lists  *)
(* a directory at a depth greater than max_depth and never returns a file  *)
(* whose directory lies deeper than max_depth: every directory listed and  *)
(* every directory holding a returned file is within max_depth steps of    *)
(* the start directory.                                                    *)
(***************************************************************************)
Children(v, d) == {DirInode(Fls(v, d)[k]) : k \in 1..Len(Fls(v, d))} \ {None}

RECURSIVE Within(_, _, _)
\* the directories at most k steps from start
Within(v, start, k) ==
    IF k = 0 THEN {start}
    ELSE LET w == Within(v, start, k - 1)
         IN w \cup UNION {Children(v, d) : d \in w}

Holds(v, d, e) == \E k \in 1..Len(Fls(v, d)) : Fls(v, d)[k] = e

C8_DepthBounded ==
    /\ \A k \in 1..Len(listed) :
          /\ listed[k][2] <= max_depth
          /\ listed[k][1] \in Within(vol, 1, max_depth)
    /\ \A k \in 1..Len(matches) :
          \E d \in Within(vol, 1, max_depth) : Holds(vol, d, matches[k])

\* a finished search of a tree deeper than the bound: a directory below the
\* cutoff holds a matching file, which is absent from the result
C8_Witness ==
    /\ pc = "done"
    /\ max_depth >= 1
    /\ \E d \in Within(vol, 1, NDirs) \ Within(vol, 1, max_depth) :
          /\ Holds(vol, d, FileEntry(100 + d, NameH))
          /\ \A k \in 1..Len(matches) : matches[k] # FileEntry(100 + d, NameH)
    /\ Len(matches) >= 2

HasCycle(v) ==
    \E d \in 1..NDirs : \E k \in 1..NDirs :
        d \in UNION {Children(v, c) : c \in Within(v, d, k - 1)}

Pattern(dir, file) == [dir |-> dir, file |-> file]

N_Users == <<"U","s","e","r","s">>

\* '/Users/*/' in pattern
HasUsersPlaceholder(p) ==
    \E i \in 1..Len(p.dir) - 1 : p.dir[i] = N_Users /\ p.dir[i + 1] = Star

RECURSIVE ReplaceFrom(_, _, _)
\* pattern.replace('/Users/*/', '/Users/<user>/') from segment i on: the
\* occurrences are taken left to right and do not overlap (an occurrence
\* uses the separators on both of its sides)
ReplaceFrom(dir, user, i) ==
    IF i >= Len(dir) THEN dir
    ELSE IF dir[i] = N_Users /\ dir[i + 1] = Star
         THEN ReplaceFrom([dir EXCEPT ![i + 1] = user], user, i + 3)
         ELSE ReplaceFrom(dir, user, i + 1)

\* line 225
ExpandPattern(p, user) == Pattern(ReplaceFrom(p.dir, user, 1), p.file)

RECURSIVE CountFrom(_, _)
\* dir_path.count('/*/') from segment i on: a segment "*" counts when a
\* separator follows it, and two occurrences do not share a separator
CountFrom(dir, i) ==
    IF i >= Len(dir) THEN 0
    ELSE IF dir[i] = Star THEN 1 + CountFrom(dir, i + 2)
         ELSE CountFrom(dir, i + 1)

\* line 245: wildcard_count = dir_path.count('/*/')
WildcardCount(dir) == CountFrom(dir, 1)

\* lines 250, 262 with the wildcards taken out of the path and the literal
\* segments kept: dir_path.replace('/*', '')
BasePathLiterals(dir) == SelectSeq(dir, LAMBDA seg : seg # Star)

\* lines 250, 262: dir_path.split('/*/')[0], as its segments
BasePath(dir) ==
    LET first == CHOOSE i \in 1..Len(dir) - 1 :
                    /\ dir[i] = Star
                    /\ \A j \in 1..i - 1 : dir[j] # Star
    IN SubSeq(dir, 1, first - 1)

\* lines 258, 269: the max_depth of the recursive search
DepthMany == 4

DepthOne == 3

\* lines 247-279: the search mode, its depth and the directory it starts from
Classify(dir) ==
    IF WildcardCount(dir) >= 2
    THEN [mode |-> "recursive", depth |-> DepthMany, base |-> BasePath(dir)]
    ELSE IF WildcardCount(dir) = 1
    THEN [mode |-> "recursive", depth |-> DepthOne, base |-> BasePath(dir)]
    ELSE [mode |-> "direct", depth |-> 0, base |-> dir]

(***************************************************************************)
(* _find_inode_by_path.                                                    *)
(***************************************************************************)
IsSubstring(part, text) ==
    \E k \in 0..Len(text) - Len(part) : SubSeq(text, k + 1, k + Len(part)) = part

\* the text of a listing line; the numbers of the content identifier are
\* written "#"
LineText(e) ==
    (IF e.kind = "d/d" THEN <<"d","/","d"," ">> ELSE <<"r","/","r"," ">>)
    \o (IF e.star THEN <<"*"," ">> ELSE <<>>)
    \o <<"#", ":", "\t">> \o e.name

\* lines 98-103: the line names the directory `part`
SegmentMatches(part, e) ==
    /\ e.kind = "d/d"
    /\ IsSubstring(part, LineText(e))
    /\ lower(e.name) = lower(part)
    /\ DirInode(e) # None

RECURSIVE ResolveFromPartial(_, _, _, _)
\* lines 87-111 with line 109 returning current_inode: the identifier of
\* the prefix resolved so far
ResolveFromPartial(v, segs, i, current_inode) ==
    IF i > Len(segs) THEN current_inode
    ELSE LET out == Fls(v, current_inode)
             hits == {k \in 1..Len(out) : SegmentMatches(segs[i], out[k])}
         IN IF hits = {} THEN current_inode
            ELSE ResolveFromPartial(v, segs, i + 1,
                                    out[CHOOSE k \in hits : \A j \in hits : k <= j].inode)

RECURSIVE ResolveFrom(_, _, _, _)
\* lines 87-111: the loop over the segments, from segment i with the
\* identifier current_inode; None is the root (fls without an identifier)
ResolveFrom(v, segs, i, current_inode) ==
    IF i > Len(segs) THEN current_inode
    ELSE LET out == Fls(v, current_inode)
             hits == {k \in 1..Len(out) : SegmentMatches(segs[i], out[k])}
         IN IF hits = {} THEN None
            ELSE ResolveFrom(v, segs, i + 1,
                             out[CHOOSE k \in hits : \A j \in hits : k <= j].inode)

\* lines 84-111 with the root's own identifier (5 on NTFS) as the start: a
\* path without segments resolves to the root directory
find_inode_by_path_root(v, segs) ==
    IF SelectSeq(segs, LAMBDA x : x # <<>>) = <<>> THEN 5
    ELSE ResolveFrom(v, SelectSeq(segs, LAMBDA x : x # <<>>), 1, None)

\* line 85: the non-empty segments of the path
find_inode_by_path(v, segs) == ResolveFrom(v, SelectSeq(segs, LAMBDA x : x # <<>>), 1, None)

RECURSIVE ListingsFrom(_, _, _, _)
\* lines 87-93 and 108-109: the identifiers given to fls by the loop, one for
\* each segment it reaches
ListingsFrom(v, segs, i, current_inode) ==
    IF i > Len(segs) THEN <<>>
    ELSE LET out == Fls(v, current_inode)
             hits == {k \in 1..Len(out) : SegmentMatches(segs[i], out[k])}
         IN <<current_inode>>
            \o (IF hits = {} THEN <<>>
                ELSE ListingsFrom(v, segs, i + 1,
                                  out[CHOOSE k \in hits : \A j \in hits : k <= j].inode))

\* the listings of one call of _find_inode_by_path
find_inode_listings(v, segs) == ListingsFrom(v, SelectSeq(segs, LAMBDA x : x # <<>>), 1, None)

\* the invocations of one call of _find_inode_by_path
ResolveCalls(v, segs, off) ==
    [k \in 1..Len(find_inode_listings(v, segs)) |->
        FlsCmd(off, find_inode_listings(v, segs)[k], "_find_inode_by_path")]

(***************************************************************************)
(* _find_user_folders.                                                     *)
(***************************************************************************)
skip_folders ==
    { <<"D","e","f","a","u","l","t">>,
      <<"D","e","f","a","u","l","t"," ","U","s","e","r">>,
      <<"P","u","b","l","i","c">>,
      <<"A","l","l"," ","U","s","e","r","s">>,
      <<"d","e","s","k","t","o","p",".","i","n","i">>,
      <<".">>, <<".",".">>,
      <<"$","R","e","c","y","c","l","e",".","B","i","n">> }

\* lines 134-145 without the test of line 143: every directory line is kept
UserLinesAll(out) ==
    SelectSeq(out, LAMBDA e : e.kind = "d/d")

\* lines 134-145: the names kept from the listing of /Users, in its order
UserLines(out) ==
    SelectSeq(out, LAMBDA e : e.kind = "d/d" /\ e.name # <<>> /\ e.name \notin skip_folders)

find_user_folders(v) ==
    LET users_inode == find_inode_by_path(v, <<N_Users>>)
    IN IF users_inode = None THEN <<>>
       ELSE LET kept == UserLines(Fls(v, users_inode))
            IN [k \in 1..Len(kept) |-> kept[k].name]

\* lines 121 and 131-132: the invocations of one call of _find_user_folders
UserFolderCalls(v, off) ==
    ResolveCalls(v, <<N_Users>>, off)
    \o (IF find_inode_by_path(v, <<N_Users>>) = None THEN <<>>
        ELSE <<FlsCmd(off, find_inode_by_path(v, <<N_Users>>), "_find_user_folders")>>)

(***************************************************************************)
(* _search_files_in_directory.                                             *)
(***************************************************************************)
\* lines 178-188, mutated: an extension pattern accepts every name
DirectNameMatchAny(pat, filename) ==
    IF pat = Star THEN TRUE
    ELSE IF startswith(pat, Star \o Dot) THEN TRUE
    ELSE lower(filename) = lower(pat)

\* lines 178-188: the filename test of the direct listing
DirectNameMatch(pat, filename) ==
    IF pat = Star THEN TRUE
    ELSE IF startswith(pat, Star \o Dot)
         THEN endswith(lower(filename), Dot \o lower(SubSeq(pat, 3, Len(pat))))
    ELSE lower(filename) = lower(pat)

\* lines 159-190: one listing of dir_inode, the regular files that match
search_files_in_directory(v, dir_inode, pat) ==
    SelectSeq(Fls(v, dir_inode), LAMBDA e : e.kind = "r/r" /\ DirectNameMatch(pat, e.name))

\* lines 154-190: a call of _search_files_in_directory for directory 1
DirectSearch ==
    /\ pc = "direct"
    /\ matches' = search_files_in_directory(vol, 1, target_filename)
    /\ listed' = <<<<1, 0>>>>
    /\ calls' = <<FlsCmd(partition_offset, 1, "_search_files_in_directory")>>
    /\ pc' = "done"
    /\ UNCHANGED <<vol, target_filename, max_depth, stack, visited>>
    /\ UNCHANGED <<pvars, evars, mmls_calls, enumerations>>
    /\ UNCHANGED wvars

(***************************************************************************)
(* The two searches over one listing: a directory of at most MaxEntries    *)
(* lines, files and directories, whose names differ from the filename      *)
(* patterns in case, hold the extension with and without its dot, or are   *)
(* the pattern itself.                                                     *)
(***************************************************************************)
MaxEntries == 2

MatchNames ==
    { <<"A",".","P","F">>, <<"b",".","p","f">>, <<"z","p","f">>, <<"h">>, <<"H">>,
      <<"*",".","p","f">> }

MatchPatterns ==
    { <<"*">>, <<"*",".","p","f">>, <<"*",".","P","F">>, <<"h">>, <<"H">>,
      <<"B",".","p","f">> }

MatchEntries ==
    {FileEntry(100, n) : n \in MatchNames} \cup {DirEntry(2, n) : n \in MatchNames}

\* the listing of directory 1, and which of the two methods is called on it
MatchInit ==
    /\ vol \in {(1 :> l) : l \in SeqsUpTo(MatchEntries, MaxEntries)}
    /\ target_filename \in MatchPatterns
    /\ max_depth = 0
    /\ pc \in {"direct", "search"}
    /\ matches = <<>>
    /\ stack = IF pc = "search" THEN <<Frame(1, 0)>> ELSE <<>>
    /\ visited = IF pc = "search" THEN {1} ELSE {}
    /\ listed = IF pc = "search" THEN <<<<1, 0>>>> ELSE <<>>

(***************************************************************************)
(* _extract_file: the destination name.                                    *)
(***************************************************************************)
IllegalChars == {"<", ">", ":", "\"", "/", "\\", "|", "?", "*"}

\* os.path.basename: what follows the last separator
basename(name) ==
    LET seps == {k \in 1..Len(name) : name[k] = "/"}
    IN IF seps = {} THEN name
       ELSE SubSeq(name, (CHOOSE k \in seps : \A j \in seps : j <= k) + 1, Len(name))

\* line 352 left out: the name is used as it is
sanitizeNothing(name) == name

\* re.sub(r'[<>:"/\\|?*]', '_', safe_name)
sanitize(name) == [k \in 1..Len(name) |-> IF name[k] \in IllegalChars THEN "_" ELSE name[k]]

\* lines 351-352
SafeName(filename) == sanitize(basename(filename))

\* os.path.splitext: the extension starts at the last dot, unless only dots
\* precede it
splitext(name) ==
    LET dots == {k \in 1..Len(name) : name[k] = "."}
        dot == CHOOSE k \in dots : \A j \in dots : j <= k
    IN IF dots # {} /\ \E j \in 1..dot - 1 : name[j] # "."
       THEN <<SubSeq(name, 1, dot - 1), SubSeq(name, dot, Len(name))>>
       ELSE <<name, <<>>>>

DigitChars == <<"0","1","2","3","4","5","6","7","8","9">>

\* str(counter), for the counters the model reaches
str(n) ==
    IF n < 10 THEN <<DigitChars[n + 1]>>
    ELSE <<DigitChars[(n \div 10) + 1], DigitChars[(n % 10) + 1]>>

\* line 361: f"{base}_{counter}{ext}"
CounterName(base, counter, ext) == base \o <<"_">> \o str(counter) \o ext

\* lines 357 and 360 with the test always false
existsNever(fs, name) == FALSE

\* lines 357 and 360: os.path.exists(os.path.join(output_dir, name)); besides
\* the files of output_dir, the paths output_dir/ (the empty name),
\* output_dir/. and output_dir/.. exist, being directories
exists(fs, name) == name \in DOMAIN fs \/ name \in {<<>>, <<".">>, <<".", ".">>}

RECURSIVE CounterLoop(_, _, _, _)
\* lines 360-362: while os.path.exists(output_path)
CounterLoop(fs, base, ext, counter) ==
    IF exists(fs, CounterName(base, counter, ext))
    THEN CounterLoop(fs, base, ext, counter + 1)
    ELSE CounterName(base, counter, ext)

\* lines 354-362, mutated: the existence test is missing
OutputPathNoCheck(fs, safe_name) == safe_name

\* lines 354-362: the destination, a name in output_dir
OutputPath(fs, safe_name) ==
    IF exists(fs, safe_name)
    THEN CounterLoop(fs, splitext(safe_name)[1], splitext(safe_name)[2], 1)
    ELSE safe_name

\* the file icat and the shell redirection leave at the destination:
\* "data" a non-empty file, "empty" a zero-byte file, "missing" no file
IcatOutcomes == {"data", "empty", "missing"}

FileOf(src, size) == [src |-> src, size |-> size]

Icat(fs, path, inode, outcome) ==
    IF outcome = "missing" THEN fs
    ELSE [n \in DOMAIN fs \cup {path} |->
            IF n = path THEN FileOf(inode, IF outcome = "data" THEN 1 ELSE 0)
            ELSE fs[n]]

\* line 368, mutated: the size is not tested
ExtractedOkNoSize(fs, path) == path \in DOMAIN fs

\* line 368: os.path.exists(output_path) and os.path.getsize(output_path) > 0
ExtractedOk(fs, path) == path \in DOMAIN fs /\ fs[path].size > 0

\* line 286: re.search(r'r/r \*? ?(\d+-\d+-\d+)', file_info)
FullInode(e) == IF e.kind = "r/r" /\ e.parts = 3 THEN e.inode ELSE None

(***************************************************************************)
(* extract_files and _extract_pattern.                                     *)
(*                                                                         *)
(*   patterns      the patterns of the call                                *)
(*   outfs         the files of output_dir: name -> [src, size]            *)
(*   mkdir_ok      whether os.makedirs(output_dir) succeeds                *)
(*   sink_fail_at  the call from which on the progress sink raises (0: it  *)
(*                 never raises); sink holds the messages it has taken     *)
(*   user_folders, extracted, matches  as in the code                      *)
(*   pi, tasks, ti the pattern in hand, its expanded patterns, the one in  *)
(*                 hand; cur is what _extract_pattern decided for it       *)
(*   mi            the match in hand; pat_extracted is _extract_pattern's  *)
(*                 own list `extracted`                                    *)
(*   attempted     the patterns for which _extract_pattern was entered     *)
(*   origin, pat_origin  for each path of extracted and pat_extracted, the *)
(*                 <<pattern, expansion, match, content identifier>> it    *)
(*                 comes from                                              *)
(*   last          the last call of _extract_file                          *)
(*   faults        how many times a tool or a call has failed so far       *)
(***************************************************************************)
MaxPatterns == 2

\* at most MaxFaults extractions fail or calls raise in one run
MaxFaults == 2

SinkFailLate == 4

\* ---- the volume of the main specification ----
N_Windows == <<"W","i","n","d","o","w","s">>

N_Prefetch == <<"P","r","e","f","e","t","c","h">>

N_alice == <<"a","l","i","c","e">>

N_bob == <<"b","o","b">>

N_Public == <<"P","u","b","l","i","c">>

N_Default == <<"D","e","f","a","u","l","t">>

N_a == <<"a">>

N_x == <<"x">>

N_y == <<"y">>

N_z == <<"z">>

N_w == <<"w">>

F_APF == <<"A",".","P","F">>

F_bpf == <<"b",".","p","f">>

F_epf == <<"e",".","p","f">>

F_ctxt == <<"c",".","t","x","t">>

F_zpf == <<"z","p","f">>

F_nlnk == <<"n",".","l","n","k">>

F_dpf == <<"d",".","p","f">>

Sub == <<"S","u","b">>

RootListing(users) ==
    <<DirEntry(10, N_Windows)>> \o users \o <<DirEntry(30, N_a)>>

CommonListings ==
    (10 :> <<DirEntry(11, N_Prefetch)>>)
    @@ (11 :> << FileEntry(100, F_APF),
                 FileEntry(102, F_ctxt),
                 DirEntry(12, Sub),
                 [FileEntry(104, F_epf) EXCEPT !.parts = 2],
                 FileEntry(105, F_zpf),
                 [FileEntry(101, F_bpf) EXCEPT !.star = TRUE] >>)
    @@ (12 :> <<FileEntry(103, F_dpf)>>)
    @@ (21 :> <<FileEntry(110, F_nlnk)>>)
    @@ (22 :> <<FileEntry(111, F_nlnk)>>)
    @@ (30 :> <<DirEntry(31, N_x)>>)
    @@ (31 :> <<DirEntry(32, N_y)>>)
    @@ (32 :> <<FileEntry(120, NameH), DirEntry(33, N_z)>>)
    @@ (33 :> <<DirEntry(34, N_w), FileEntry(121, NameH)>>)
    @@ (34 :> <<FileEntry(122, NameH), DirEntry(30, N_a)>>)

\* two user profiles beside the pseudo-folders
VolUsers ==
    (None :> RootListing(<<DirEntry(20, N_Users)>>))
    @@ (20 :> <<DirEntry(23, N_Public), DirEntry(21, N_alice),
                DirEntry(24, N_Default), DirEntry(22, N_bob)>>)
    @@ CommonListings

\* /Users holds pseudo-folders only
VolNoUsers ==
    (None :> RootListing(<<DirEntry(20, N_Users)>>))
    @@ (20 :> <<DirEntry(23, N_Public), DirEntry(24, N_Default)>>)
    @@ CommonListings

\* fls prints nothing (the tool is missing or fails on the image)
VolSilent == [n \in {} |-> <<>>]

Volumes == {VolUsers, VolNoUsers, VolSilent}

\* the partition table of the image: a header line and one NTFS partition
ImageTable ==
    << MkLine(6, IntTok(0), IntTok(2048), {"Meta"}),
       MkLine(6, IntTok(2048), IntTok(3000000), {"NTFS", "exFAT"}) >>

\* ---- the patterns of the main specification ----
P_Prefetch == Pattern(<<N_Windows, N_Prefetch>>, <<"*",".","p","f">>)

P_UserLnk == Pattern(<<N_Users, Star>>, F_nlnk)

P_TwoAdjacent == Pattern(<<N_a, Star, Star>>, NameH)

P_LastWildcard == Pattern(<<N_a, Star>>, NameH)

P_OneMiddle == Pattern(<<N_a, Star, N_y>>, NameH)

P_TwoApart == Pattern(<<N_a, Star, N_y, Star, N_w>>, NameH)

P_Missing == Pattern(<<<<"N","o","p","e">>>>, Star)

\* /windows/prefetch/*.pf: the Prefetch pattern written in lower case
P_PrefetchLower == Pattern(<<lower(N_Windows), lower(N_Prefetch)>>, <<"*",".","p","f">>)

\* the configured patterns, in their configured order
FixturePatterns ==
    <<P_UserLnk, P_Missing, P_LastWildcard, P_Prefetch, P_TwoAdjacent, P_OneMiddle,
      P_TwoApart, P_PrefetchLower>>

\* /a/*: every file of the directory /a
P_AllOfA == Pattern(<<N_a>>, Star)

\* /b: a file of the volume root; the directory portion is "/"
P_RootFile == Pattern(<<>>, <<"b">>)

\* /*/a/b: the first directory segment is the wildcard
P_FirstWildcard == Pattern(<<Star, N_a>>, <<"b">>)

\* the pattern lists of the calls on the directory of unusual names
OddPatternLists == {<<P_AllOfA>>, <<P_RootFile>>, <<P_FirstWildcard>>, <<P_RootFile, P_AllOfA>>}

\* ---- a directory of files with unusual names ----
MaxMatches == 2

\* names with a separator, with the colon of a named stream, with the other
\* characters a destination must not hold, the names of the directory itself
\* and of its parent, the empty name, and two plain names that the others
\* turn into
OddNames ==
    << <<"a","/","b">>, <<"a",":","b">>, <<"a","_","b">>,
       <<"<",">","\"","\\","|","?","*">>, <<".",".">>, <<>>, <<"b">> >>

OddEntries == {FileEntry(200 + k, OddNames[k]) : k \in 1..Len(OddNames)}

\* the root with the directory /a and the file /b; /a with at most MaxMatches
\* of these files, a file possibly listed twice, and below it /a/a with b
OddVolumes ==
    {(None :> <<DirEntry(30, N_a), FileEntry(40, <<"b">>)>>)
     @@ (30 :> l \o <<DirEntry(31, N_a)>>)
     @@ (31 :> <<FileEntry(41, <<"b">>)>>) : l \in SeqsUpTo(OddEntries, MaxMatches)}

\* the sub-lists of list of at most n elements, in the order of list
SubLists(list, n) ==
    {[k \in 1..Len(ix) |-> list[ix[k]]] :
        ix \in {jx \in SeqsUpTo(1..Len(list), n) :
                    \A k \in 1..Len(jx) - 1 : jx[k] < jx[k + 1]}}

OldFile == FileOf(0, 1)

\* output_dir before the call: empty, or holding files of an earlier run
OutDirs ==
    { [n \in {} |-> OldFile],
      [n \in {F_APF, NameH, <<"h","_","1">>} |-> OldFile] }

\* output_dir for the files with unusual names: empty, or holding two of the
\* names they are turned into
OddOutDirs ==
    { [n \in {} |-> OldFile],
      [n \in {<<"b">>, <<"a","_","b">>} |-> OldFile] }

NoCall == [filename |-> <<>>, inode |-> 0, path |-> <<>>, returned |-> FALSE, calls |-> 0]

NoTask == [pat |-> Pattern(<<>>, <<>>), mode |-> "none", depth |-> 0, base |-> <<>>,
           inode |-> None, listings |-> <<>>, task |-> <<0, 0>>]

ExtractInit ==
    /\ patterns \in SubLists(FixturePatterns, MaxPatterns)
    /\ outfs \in OutDirs
    /\ mkdir_ok \in BOOLEAN
    /\ sink_fail_at \in {0, 1, SinkFailLate}
    /\ sink = <<>>
    /\ user_folders = <<>>
    /\ extracted = <<>>
    /\ pi = 1
    /\ tasks = <<>>
    /\ ti = 1
    /\ cur = NoTask
    /\ mi = 1
    /\ pat_extracted = <<>>
    /\ attempted = {}
    /\ origin = <<>>
    /\ pat_origin = <<>>
    /\ last = NoCall
    /\ faults = 0

ExtractIdle ==
    /\ patterns = <<>>
    /\ outfs = [n \in {} |-> OldFile]
    /\ mkdir_ok = TRUE
    /\ sink_fail_at = 0
    /\ sink = <<>>
    /\ user_folders = <<>>
    /\ extracted = <<>>
    /\ pi = 1
    /\ tasks = <<>>
    /\ ti = 1
    /\ cur = NoTask
    /\ mi = 1
    /\ pat_extracted = <<>>
    /\ attempted = {}
    /\ origin = <<>>
    /\ pat_origin = <<>>
    /\ last = NoCall
    /\ faults = 0

SearchIdle ==
    /\ target_filename = <<>>
    /\ max_depth = 0
    /\ stack = <<>>
    /\ visited = {}
    /\ matches = <<>>
    /\ listed = <<>>

\* ---- the progress sink ----
\* how many further calls the sink takes before it raises
Room(s) == IF sink_fail_at = 0 THEN 100 ELSE
           IF sink_fail_at - 1 - Len(s) > 0 THEN sink_fail_at - 1 - Len(s) ELSE 0

\* the sink takes all of msgs
CanLog(msgs) == Len(msgs) <= Room(sink)

\* the sink after the calls for msgs, up to the one that raises
Logged(msgs) ==
    sink \o SubSeq(msgs, 1, IF Len(msgs) <= Room(sink) THEN Len(msgs) ELSE Room(sink))

\* ---- extract_files ----
\* line 227 and 229, mutated: the paths of a pattern are put in front
ExtendListFront(list, more) == more \o list

\* lines 227 and 229: extracted.extend(...)
ExtendList(list, more) == list \o more

\* line 298 replaced by `return []` in the handler: what the pattern had
\* extracted is dropped
HandlerResultNone(list) == <<>>

\* line 298 reached from the handler: return extracted
HandlerResult(list) == list

\* line 298 and lines 224-229: _extract_pattern returns a list, which is
\* added to extracted; the loops go on with the next expansion or pattern
FinishTaskWith(result, result_origin) ==
    /\ extracted' = ExtendList(extracted, result)
    /\ origin' = ExtendList(origin, result_origin)
    /\ pat_extracted' = <<>>
    /\ pat_origin' = <<>>
    /\ mi' = 1
    /\ IF ti < Len(tasks)
       THEN /\ ti' = ti + 1
            /\ pc' = "task"
            /\ UNCHANGED <<pi, tasks>>
       ELSE /\ ti' = 1
            /\ tasks' = <<>>
            /\ pi' = pi + 1
            /\ pc' = "loop"
    /\ target_filename' = <<>>
    /\ max_depth' = 0
    /\ stack' = <<>>
    /\ visited' = {}
    /\ matches' = <<>>
    /\ listed' = <<>>

\* line 298 reached at the end of the try block, and the early returns of
\* lines 255, 267 and 277, where the list is empty
FinishTask == FinishTaskWith(pat_extracted, pat_origin)

\* lines 201-217
Start ==
    /\ pc = "start"
    /\ ppc = "done"
    /\ IF ~mkdir_ok
       THEN /\ pc' = "raised"                    \* line 203 raises
            /\ UNCHANGED <<user_folders, sink, gvars>>
       ELSE LET needs_users == \E k \in 1..Len(patterns) : HasUsersPlaceholder(patterns[k])
                found == IF needs_users THEN find_user_folders(vol) ELSE <<>>
            IN /\ IF needs_users /\ found = <<>>
                  THEN /\ sink' = Logged(<<"no_users">>)
                       /\ pc' = IF CanLog(<<"no_users">>) THEN "returned" ELSE "raised"
                       /\ UNCHANGED user_folders
                  ELSE /\ user_folders' = found
                       /\ pc' = "loop"
                       /\ UNCHANGED sink
               /\ IF needs_users
                  THEN /\ calls' = UserFolderCalls(vol, partition_offset)
                       /\ enumerations' = enumerations + 1
                  ELSE UNCHANGED <<calls, enumerations>>
               /\ UNCHANGED mmls_calls
    /\ UNCHANGED <<patterns, outfs, mkdir_ok, sink_fail_at, extracted, pi, tasks, ti, cur,
                   mi, pat_extracted, attempted, origin, pat_origin, last, faults>>
    /\ UNCHANGED <<pvars, svars>>
    /\ UNCHANGED wvars

\* lines 219-229: the next pattern and its expansions
NextPattern ==
    /\ pc = "loop"
    /\ pi <= Len(patterns)
    /\ sink' = Logged(<<"searching">>)
    /\ IF CanLog(<<"searching">>)
       THEN /\ tasks' = IF HasUsersPlaceholder(patterns[pi]) /\ user_folders # <<>>
                        THEN [k \in 1..Len(user_folders) |->
                                [pat |-> ExpandPattern(patterns[pi], user_folders[k]),
                                 user |-> k]]
                        ELSE <<[pat |-> patterns[pi], user |-> 0]>>
            /\ pc' = "task"
       ELSE /\ pc' = "raised"                    \* line 220 raises
            /\ UNCHANGED tasks
    /\ UNCHANGED <<patterns, outfs, mkdir_ok, sink_fail_at, user_folders, extracted, pi, ti,
                   cur, mi, pat_extracted, attempted, origin, pat_origin, last, faults>>
    /\ UNCHANGED <<pvars, svars, gvars>>
    /\ UNCHANGED wvars

\* line 231: return extracted
Return ==
    /\ pc = "loop"
    /\ pi > Len(patterns)
    /\ pc' = "returned"
    /\ UNCHANGED <<pvars, svars, evars, gvars>>
    /\ UNCHANGED wvars

\* lines 226 and 239-281: _extract_pattern up to its list of matches (the
\* recursive search goes on in SearchLine and SearchReturn)
BeginTask ==
    /\ pc = "task"
    /\ LET t == tasks[ti]
           c == Classify(t.pat.dir)
           inode == find_inode_by_path(vol, c.base)
           trying == IF t.user > 0 THEN <<"trying">> ELSE <<>>
           inside == IF inode = None THEN <<"not_found">>
                     ELSE IF c.mode = "direct" THEN <<"found">>
                     ELSE IF c.depth = DepthMany THEN <<"recursive_in">>
                     ELSE <<>>
           lists == IF inode = None THEN <<>>
                    ELSE IF c.mode = "direct"
                    THEN <<FlsCmd(partition_offset, inode, "_search_files_in_directory")>>
                    ELSE IF CanLog(trying \o inside) /\ ~ShouldReturn(inode, 0, c.depth, {})
                    THEN <<FlsCmd(partition_offset, inode, "search_dir")>>
                    ELSE <<>>
       IN /\ sink' = Logged(trying \o inside)
          /\ IF ~CanLog(trying)
             THEN /\ pc' = "raised"                \* line 226 raises
                  /\ UNCHANGED <<cur, attempted, extracted, origin, pat_extracted, pat_origin,
                                 mi, pi, ti, tasks, target_filename, max_depth, stack,
                                 visited, matches, listed, calls>>
             ELSE /\ cur' = [pat |-> t.pat, mode |-> c.mode, depth |-> c.depth,
                             base |-> c.base, inode |-> inode,
                             listings |-> find_inode_listings(vol, c.base),
                             task |-> <<pi, ti>>]
                  /\ calls' = ResolveCalls(vol, c.base, partition_offset) \o lists
                  /\ attempted' = attempted \cup {pi}
                  /\ IF ~CanLog(trying \o inside)
                     THEN /\ pc' = "raise"
                          /\ UNCHANGED <<extracted, origin, pat_extracted, pat_origin, mi, pi,
                                         ti, tasks, target_filename, max_depth, stack,
                                         visited, matches, listed>>
                     ELSE IF inode = None
                     THEN FinishTask                \* lines 255, 267, 277: return []
                     ELSE IF c.mode = "recursive"
                     THEN /\ SearchCall(inode, c.depth)
                          /\ target_filename' = t.pat.file
                          /\ max_depth' = c.depth
                          /\ pc' = "search"
                          /\ UNCHANGED <<extracted, origin, pat_extracted, pat_origin, mi,
                                         pi, ti, tasks>>
                     ELSE /\ matches' = search_files_in_directory(vol, inode, t.pat.file)
                          /\ listed' = <<<<inode, 0>>>>
                          /\ target_filename' = t.pat.file
                          /\ pc' = "extract"
                          /\ UNCHANGED <<extracted, origin, pat_extracted, pat_origin, mi,
                                         pi, ti, tasks, max_depth, stack, visited>>
    /\ UNCHANGED <<patterns, outfs, mkdir_ok, sink_fail_at, user_folders, last, faults>>
    /\ UNCHANGED <<pvars, vol, mmls_calls, enumerations>>
    /\ UNCHANGED wvars

\* lines 258, 269 and 281: _search_recursive has returned its matches
SearchFinish ==
    /\ pc = "search"
    /\ stack = <<>>
    /\ cur.mode = "recursive"
    /\ sink' = Logged(<<"found">>)
    /\ pc' = IF CanLog(<<"found">>) THEN "extract" ELSE "raise"
    /\ UNCHANGED <<patterns, outfs, mkdir_ok, sink_fail_at, user_folders, extracted, pi,
                   tasks, ti, cur, mi, pat_extracted, attempted, origin, pat_origin, last, faults>>
    /\ UNCHANGED <<pvars, svars, gvars>>
    /\ UNCHANGED wvars

\* lines 284-291 with _extract_file (lines 345-372): one match
ExtractFile ==
    /\ pc = "extract"
    /\ mi <= Len(matches)
    /\ LET e == matches[mi]
           inode == FullInode(e)
       IN IF inode = None
          THEN /\ mi' = mi + 1
               /\ UNCHANGED <<outfs, last, pat_extracted, pat_origin, sink, pc, faults, calls>>
          ELSE \E outcome \in IF faults < MaxFaults THEN IcatOutcomes ELSE {"data"} :
                 LET safe_name == SafeName(e.name)
                     output_path == OutputPath(outfs, safe_name)
                     fs == Icat(outfs, output_path, inode, outcome)
                     ok == ExtractedOk(fs, output_path)
                 IN /\ outfs' = fs
                    /\ calls' = Append(calls, IcatCmd(partition_offset, inode))
                    /\ faults' = IF outcome = "data" THEN faults ELSE faults + 1
                    /\ last' = [filename |-> e.name, inode |-> inode, path |-> output_path,
                                returned |-> ok /\ CanLog(<<"extracted">>),
                                calls |-> last.calls + 1]
                    /\ IF ok
                       THEN /\ sink' = Logged(<<"extracted">>)
                            /\ IF CanLog(<<"extracted">>)
                               THEN /\ pat_extracted' = Append(pat_extracted, output_path)
                                    /\ pat_origin' = Append(pat_origin, <<pi, ti, mi, inode>>)
                                    /\ mi' = mi + 1
                                    /\ UNCHANGED pc
                               ELSE /\ pc' = "raise"           \* line 369 raises
                                    /\ UNCHANGED <<pat_extracted, pat_origin, mi>>
                       ELSE /\ mi' = mi + 1
                            /\ UNCHANGED <<pat_extracted, pat_origin, sink, pc>>
    /\ UNCHANGED <<patterns, mkdir_ok, sink_fail_at, user_folders, extracted, pi, tasks, ti,
                   cur, attempted, origin>>
    /\ UNCHANGED <<pvars, svars, mmls_calls, enumerations>>
    /\ UNCHANGED wvars

\* line 298: every match has been handled
TaskDone ==
    /\ pc = "extract"
    /\ mi > Len(matches)
    /\ FinishTask
    /\ UNCHANGED <<patterns, outfs, mkdir_ok, sink_fail_at, sink, user_folders, cur,
                   attempted, last, faults>>
    /\ UNCHANGED <<pvars, vol, gvars>>
    /\ UNCHANGED wvars

\* an exception raised inside the try block of _extract_pattern while it
\* lists or extracts
EnvRaise ==
    /\ pc \in {"search", "extract"}
    /\ cur.mode # "none"
    /\ faults < MaxFaults
    /\ faults' = faults + 1
    /\ pc' = "raise"
    /\ UNCHANGED <<patterns, outfs, mkdir_ok, sink_fail_at, sink, user_folders, extracted, pi,
                   tasks, ti, cur, mi, pat_extracted, attempted, origin, pat_origin, last>>
    /\ UNCHANGED <<pvars, svars, gvars>>
    /\ UNCHANGED wvars

\* lines 21-29 and 366: subprocess.run is given no timeout, so it waits for
\* as long as the tool runs; a tool that never completes leaves the call
\* waiting in it
ToolHangs ==
    /\ pc # "blocked"
    /\ faults < MaxFaults
    /\ \/ ppc = "new"
       \/ /\ pc = "start"
          /\ ppc = "done"
          /\ mkdir_ok
          /\ \E k \in 1..Len(patterns) : HasUsersPlaceholder(patterns[k])
       \/ pc = "task" /\ CanLog(IF tasks[ti].user > 0 THEN <<"trying">> ELSE <<>>)
       \/ pc = "search" /\ cur.mode = "recursive" /\ stack # <<>> /\ Top.i = 1
       \/ pc = "extract" /\ mi <= Len(matches) /\ FullInode(matches[mi]) # None
    /\ pc' = "blocked"
    /\ faults' = faults + 1
    /\ UNCHANGED <<patterns, outfs, mkdir_ok, sink_fail_at, sink, user_folders, extracted, pi,
                   tasks, ti, cur, mi, pat_extracted, attempted, origin, pat_origin, last>>
    /\ UNCHANGED <<pvars, svars, gvars>>
    /\ UNCHANGED wvars

\* lines 293-298: the handler logs the error; _extract_pattern returns
\* what it has extracted so far
HandleException ==
    /\ pc = "raise"
    /\ cur.mode # "none"
    /\ sink' = Logged(<<"error">>)
    /\ IF CanLog(<<"error">>)
       THEN FinishTaskWith(HandlerResult(pat_extracted), HandlerResult(pat_origin))
       ELSE /\ pc' = "raised"                    \* line 294 raises
            /\ UNCHANGED <<extracted, origin, pat_extracted, pat_origin, mi, pi, ti, tasks,
                           target_filename, max_depth, stack, visited, matches, listed>>
    /\ UNCHANGED <<patterns, outfs, mkdir_ok, sink_fail_at, user_folders, cur, attempted,
                   last, faults>>
    /\ UNCHANGED <<pvars, vol, gvars>>
    /\ UNCHANGED wvars

(***************************************************************************)
(* C1: _extract_file never chooses a destination that exists: the          *)
(* sanitized name if it is free, otherwise <base>_<k><ext> for the         *)
(* smallest k >= 1 that is free; and no call changes or removes a file     *)
(* that was in output_dir before it.                                       *)
(***************************************************************************)
C1_Step ==
    last'.calls = last.calls + 1 =>
        LET safe == SafeName(last'.filename)
            base == splitext(safe)[1]
            ext == splitext(safe)[2]
        IN /\ last'.path \notin DOMAIN outfs
           /\ safe \notin DOMAIN outfs => last'.path = safe
           /\ safe \in DOMAIN outfs =>
                \E k \in 1..20 :
                    /\ last'.path = base \o <<"_">> \o str(k) \o ext
                    /\ \A j \in 1..k - 1 : (base \o <<"_">> \o str(j) \o ext) \in DOMAIN outfs
           /\ \A n \in DOMAIN outfs : n \in DOMAIN outfs' /\ outfs'[n] = outfs[n]

C1_NeverOverwrites == [][C1_Step]_vars

\* n.lnk extracted twice into an empty directory gives n.lnk and n_1.lnk,
\* each holding its own source
C1_Witness ==
    /\ <<"n",".","l","n","k">> \in DOMAIN outfs
    /\ outfs[<<"n",".","l","n","k">>] = FileOf(110, 1)
    /\ last.path = <<"n","_","1",".","l","n","k">>
    /\ last.path \in DOMAIN outfs
    /\ outfs[last.path] = FileOf(111, 1)
    /\ Cardinality(DOMAIN outfs) = 2

(***************************************************************************)
(* C2: _extract_file returns the destination exactly when, after icat has  *)
(* run, a file of size > 0 is there, and only then is the path added to    *)
(* the result; so every path of the result names an existing, non-empty    *)
(* file.                                                                   *)
(***************************************************************************)
Range(list) == {list[k] : k \in 1..Len(list)}

C2_ReturnedPathsExist ==
    /\ \A path \in Range(extracted) \cup Range(pat_extracted) :
          path \in DOMAIN outfs /\ outfs[path].size > 0
    /\ (last.calls > 0 /\ pc # "raise" /\ pc # "raised") =>
          /\ last.returned <=> (last.path \in DOMAIN outfs /\ outfs[last.path].size > 0)
          /\ last.returned <=> last.path \in Range(extracted) \cup Range(pat_extracted)
    /\ pc = "returned" =>
          \A k \in 1..Len(extracted) : outfs[extracted[k]].src = origin[k][4]

\* a call that has returned: one extraction left a zero-byte file, one left
\* no file, neither is in the result, and a third is
C2_Witness ==
    /\ pc = "returned"
    /\ Len(extracted) >= 1
    /\ faults = 2
    /\ \E n \in DOMAIN outfs : outfs[n].size = 0 /\ n \notin Range(extracted)
    /\ last.calls > Cardinality(DOMAIN outfs)
    /\ ~last.returned

(***************************************************************************)
(* C3: a failure of one pattern does not keep the other patterns of the    *)
(* call from being attempted: a call with several patterns returns only    *)
(* after _extract_pattern has been entered for every one of them.          *)
(***************************************************************************)
C3_AllPatternsAttempted ==
    (pc = "returned" /\ Len(patterns) > 1) => attempted = 1..Len(patterns)

(***************************************************************************)
(* C4: no exception leaves extract_files.                                  *)
(***************************************************************************)
C4_NoExceptionEscapes == pc # "raised"

(***************************************************************************)
(* C5: the result lists the paths pattern by pattern in the order of the   *)
(* patterns, within a placeholder pattern user by user in the order the    *)
(* users were listed, and within one search in the order of its matches,   *)
(* which for a direct listing is the order of the listing.                 *)
(***************************************************************************)
Before(a, b) ==
    \/ a[1] < b[1]
    \/ a[1] = b[1] /\ a[2] < b[2]
    \/ a[1] = b[1] /\ a[2] = b[2] /\ a[3] < b[3]

InListingOrder(list, out, Key(_)) ==
    \A a, b \in 1..Len(list) :
        a < b => \E i, j \in 1..Len(out) : i < j /\ Key(out[i]) = list[a] /\ Key(out[j]) = list[b]

EntryItself(e) == e

EntryName(e) == e.name

C5_ResultInPatternOrder ==
    /\ Len(origin) = Len(extracted)
    /\ Len(pat_origin) = Len(pat_extracted)
    /\ \A j, k \in 1..Len(origin) : j < k => Before(origin[j], origin[k])
    /\ \A j, k \in 1..Len(pat_origin) : j < k => Before(pat_origin[j], pat_origin[k])
    /\ \A j \in 1..Len(origin) : \A k \in 1..Len(pat_origin) : Before(origin[j], pat_origin[k])
    /\ \A k \in 1..Len(origin) :
          /\ extracted[k] \in DOMAIN outfs
          /\ outfs[extracted[k]].src = origin[k][4]
    /\ (pc = "extract" /\ cur.mode = "direct") =>
          InListingOrder(matches, Fls(vol, cur.inode), EntryItself)
    /\ \A t \in 1..Len(tasks) :
          tasks[t].user > 0 =>
              /\ tasks[t].user = t
              /\ \E i \in 1..Len(tasks[t].pat.dir) : tasks[t].pat.dir[i] = user_folders[t]
    /\ InListingOrder(user_folders, Fls(vol, find_inode_by_path(vol, <<N_Users>>)), EntryName)

\* a returned result with the files of two users, alice before bob, and
\* then the files of a second pattern
C5_Witness ==
    /\ pc = "returned"
    /\ Len(extracted) >= 4
    /\ origin[1][1] = 1 /\ origin[1][2] = 1 /\ origin[1][4] = 110
    /\ origin[2][1] = 1 /\ origin[2][2] = 2 /\ origin[2][4] = 111
    /\ origin[3][1] = 2 /\ origin[4][1] = 2 /\ origin[3][3] < origin[4][3]
    /\ user_folders = <<N_alice, N_bob>>

(***************************************************************************)
(* C7: the search mode of a pattern follows from the number of "*"         *)
(* segments of its directory portion: none, a direct listing of the        *)
(* literal directory; one, a recursive search of depth 3; two or more, a   *)
(* recursive search of depth 4; both from the directory named by the       *)
(* segments before the first "*" segment.                                  *)
(***************************************************************************)
StarSegments(dir) == {i \in 1..Len(dir) : dir[i] = Star}

PrefixBeforeFirstStar(dir) ==
    SubSeq(dir, 1, (CHOOSE i \in StarSegments(dir) : \A j \in StarSegments(dir) : i <= j) - 1)

C7_ModeByWildcardSegments ==
    cur.mode # "none" =>
        LET n == Cardinality(StarSegments(cur.pat.dir))
        IN /\ n = 0 => cur.mode = "direct" /\ cur.base = cur.pat.dir
           /\ n = 1 => /\ cur.mode = "recursive"
                       /\ cur.depth = 3
                       /\ cur.base = PrefixBeforeFirstStar(cur.pat.dir)
           /\ n >= 2 => /\ cur.mode = "recursive"
                        /\ cur.depth = 4
                        /\ cur.base = PrefixBeforeFirstStar(cur.pat.dir)

(***************************************************************************)
(* C10: in direct mode the resolved directory is listed exactly once, no   *)
(* subdirectory of it is listed, the matches are regular-file entries of   *)
(* that listing, and with the filename pattern *.pf their names end with   *)
(* .pf when letter case is ignored.                                        *)
(***************************************************************************)
C10_DirectMode ==
    (pc = "extract" /\ cur.mode = "direct") =>
        /\ listed = <<<<cur.inode, 0>>>>
        /\ \A k \in 1..Len(matches) :
              /\ matches[k].kind = "r/r"
              /\ Holds(vol, cur.inode, matches[k])
              /\ cur.pat.file = <<"*",".","p","f">> =>
                    LET nm == matches[k].name
                    IN /\ Len(nm) >= 3
                       /\ LowerChar(nm[Len(nm) - 2]) = "."
                       /\ LowerChar(nm[Len(nm) - 1]) = "p"
                       /\ LowerChar(nm[Len(nm)]) = "f"

\* /Windows/Prefetch/*.pf: of the six entries of the directory (A.PF, c.txt,
\* the subdirectory Sub holding d.pf, e.pf, zpf, b.pf) the matches are A.PF,
\* e.pf and b.pf
C10_Witness ==
    /\ pc = "extract"
    /\ cur.mode = "direct"
    /\ cur.pat = P_Prefetch
    /\ cur.inode = 11
    /\ Len(Fls(vol, 11)) = 6
    /\ Len(Fls(vol, 12)) = 1
    /\ [k \in 1..Len(matches) |-> matches[k].name] = <<F_APF, F_epf, F_bpf>>

(***************************************************************************)
(* The web front end: websocket_endpoint and run_etl_pipeline of           *)
(* src/web_app.py.  Every start_processing message starts a task           *)
(* run_etl_pipeline on the event loop; the task asks Elasticsearch whether *)
(* records exist and, if none are reported, runs ETLPipeline.run in a      *)
(* thread of its own executor.  That thread constructs a TSKCollector and  *)
(* calls extract_files, which run mmls, fls and icat one after the other   *)
(* with subprocess.run.                                                    *)
(***************************************************************************)
\* the start_processing messages sent for one image
MaxStarts == 2

\* the external invocations of one pipeline run
MaxToolCalls == 3

NoPipeline == [st |-> "none", step |-> 0, inflight |-> FALSE, chosen |-> FALSE, path |-> <<>>]

\* the file every pipeline of the image extracts with its last invocation
SharedName == <<"n",".","l","n","k">>

SharedInode == 110

WebIdle ==
    /\ inbox = 0
    /\ pipelines = <<>>
    /\ es_count = 0

WebInit ==
    /\ inbox \in 1..MaxStarts
    /\ pipelines = [t \in 1..MaxStarts |-> NoPipeline]
    /\ es_count \in {0, 1}

EngineUnchanged == UNCHANGED <<pvars, svars, pc, evars, gvars>>

\* web_app.py lines 779-784: a start_processing message is received and
\* asyncio.create_task(run_etl_pipeline(...)) is called; the loop goes back
\* to receive_json
Receive ==
    /\ inbox > 0
    /\ \E t \in 1..MaxStarts :
          /\ pipelines[t].st = "none"
          /\ \A u \in 1..t - 1 : pipelines[u].st # "none"
          /\ pipelines' = [pipelines EXCEPT ![t].st = "check"]
    /\ inbox' = inbox - 1
    /\ UNCHANGED es_count
    /\ EngineUnchanged

\* web_app.py lines 811-848: the count of existing records; a count above 0
\* ends the task, a count of 0, another status or an exception lets it go on
CheckExisting(t) ==
    /\ pipelines[t].st = "check"
    /\ \E answered \in BOOLEAN :
          pipelines' = [pipelines EXCEPT
                           ![t].st = IF answered /\ es_count > 0 THEN "done" ELSE "ready"]
    /\ UNCHANGED <<inbox, es_count>>
    /\ EngineUnchanged

\* web_app.py lines 858-880: run_pipeline is handed to a new executor
StartPipeline(t) ==
    /\ pipelines[t].st = "ready"
    /\ pipelines' = [pipelines EXCEPT ![t].st = "running"]
    /\ UNCHANGED <<inbox, es_count>>
    /\ EngineUnchanged

\* whether the next invocation of the pipeline is its extraction (icat)
AtExtraction(t) == pipelines[t].step = MaxToolCalls - 1

\* tsk_collector.py lines 350-362: _extract_file in the thread of pipeline t
\* settles on its destination in the directory all pipelines share
\* (web_app.py line 863: output/web_pipeline, etl_pipeline.py line 204:
\* raw/<artifact type> under it)
ChoosePath(t) ==
    /\ pipelines[t].st = "running"
    /\ ~pipelines[t].inflight
    /\ AtExtraction(t)
    /\ ~pipelines[t].chosen
    /\ pipelines' = [pipelines EXCEPT ![t].chosen = TRUE,
                                      ![t].path = OutputPath(outfs, SafeName(SharedName))]
    /\ UNCHANGED <<inbox, es_count>>
    /\ EngineUnchanged

\* etl_pipeline.py lines 209-210 and tsk_collector.py lines 21-28 and 366:
\* the pipeline thread starts an external process and waits for it; for the
\* extraction the shell first opens the destination, which creates or
\* empties it
ToolStart(t) ==
    /\ pipelines[t].st = "running"
    /\ ~pipelines[t].inflight
    /\ pipelines[t].step < MaxToolCalls
    /\ AtExtraction(t) => pipelines[t].chosen
    /\ pipelines' = [pipelines EXCEPT ![t].inflight = TRUE]
    /\ outfs' = IF AtExtraction(t)
                THEN Icat(outfs, pipelines[t].path, SharedInode, "empty")
                ELSE outfs
    /\ UNCHANGED <<inbox, es_count>>
    /\ UNCHANGED <<patterns, mkdir_ok, sink_fail_at, sink, user_folders, extracted, pi, tasks,
                   ti, cur, mi, pat_extracted, attempted, origin, pat_origin, last, faults>>
    /\ UNCHANGED <<pvars, svars, pc, gvars>>

\* tsk_collector.py line 29: the process has ended, subprocess.run returns;
\* icat has written the content to the destination
ToolFinish(t) ==
    /\ pipelines[t].st = "running"
    /\ pipelines[t].inflight
    /\ pipelines' = [pipelines EXCEPT ![t].inflight = FALSE, ![t].step = @ + 1]
    /\ outfs' = IF AtExtraction(t)
                THEN Icat(outfs, pipelines[t].path, SharedInode, "data")
                ELSE outfs
    /\ UNCHANGED <<inbox, es_count>>
    /\ UNCHANGED <<patterns, mkdir_ok, sink_fail_at, sink, user_folders, extracted, pi, tasks,
                   ti, cur, mi, pat_extracted, attempted, origin, pat_origin, last, faults>>
    /\ UNCHANGED <<pvars, svars, pc, gvars>>

\* etl_pipeline.py lines 160-179 and web_app.py line 890: what was
\* extracted is parsed and loaded (nothing is loaded when nothing was
\* extracted or parsed), the thread ends and the task completes
PipelineDone(t) ==
    /\ pipelines[t].st = "running"
    /\ ~pipelines[t].inflight
    /\ pipelines[t].step = MaxToolCalls
    /\ pipelines' = [pipelines EXCEPT ![t].st = "done"]
    /\ \E loaded \in {0, 1} : es_count' = es_count + loaded
    /\ UNCHANGED inbox
    /\ EngineUnchanged

(***************************************************************************)
(* C18: at no time are two external tool processes in flight against the   *)
(* image, also when a second start_processing message arrives while the    *)
(* pipeline of the first is running.                                       *)
(***************************************************************************)
C18_NoOverlappingInvocations ==
    Cardinality({t \in DOMAIN pipelines : pipelines[t].inflight}) <= 1

(***************************************************************************)
(* C27: when the pipelines of two start_processing messages run at the     *)
(* same time and extract into the same directory, no two of them settle on *)
(* the same destination, so that neither writes over the file of the       *)
(* other.                                                                  *)
(***************************************************************************)
C27_NoSharedDestination ==
    \A t, u \in DOMAIN pipelines :
        (t # u /\ pipelines[t].chosen /\ pipelines[u].chosen)
            => pipelines[t].path # pipelines[u].path

(***************************************************************************)
(* C11: _find_inode_by_path compares a segment with the names of the       *)
(* directory entries without regard to letter case: the identifier it      *)
(* returns is that of the path resolved segment by segment through the     *)
(* first directory entry whose name equals the segment when case is         *)
(* ignored, so a path written in another case resolves to the same         *)
(* identifier.                                                             *)
(***************************************************************************)
C11_SameNameIgnoringCase(part, e) ==
    /\ e.kind = "d/d"
    /\ ~e.star
    /\ lower(e.name) = lower(part)

RECURSIVE C11_Resolved(_, _, _, _)
C11_Resolved(v, segs, i, from) ==
    IF i > Len(segs) THEN from
    ELSE LET out == Fls(v, from)
             hits == {k \in 1..Len(out) : C11_SameNameIgnoringCase(segs[i], out[k])}
         IN IF hits = {} THEN None
            ELSE C11_Resolved(v, segs, i + 1,
                              out[CHOOSE k \in hits : \A j \in hits : k <= j].inode)

C11_CaseInsensitiveResolution ==
    cur.mode # "none" =>
        /\ cur.inode = C11_Resolved(vol, cur.base, 1, None)
        /\ cur.inode = find_inode_by_path(vol, [k \in 1..Len(cur.base) |-> lower(cur.base[k])])

(***************************************************************************)
(* C12: when the user enumeration finds no user, the patterns without the  *)
(* placeholder /Users/*/ are still processed: a call that has enumerated,  *)
(* found nobody and returned has entered _extract_pattern for every        *)
(* pattern that does not hold the placeholder.                             *)
(***************************************************************************)
C12_OtherPatternsStillProcessed ==
    (pc = "returned" /\ enumerations = 1 /\ user_folders = <<>>) =>
        \A k \in 1..Len(patterns) :
            ~HasUsersPlaceholder(patterns[k]) => k \in attempted

(***************************************************************************)
(* C13: _find_user_folders is called at most once in a call of             *)
(* extract_files, not at all when no pattern holds the placeholder, and it *)
(* has been called by the time any pattern is processed; it yields, in     *)
(* listing order, the names of the directory entries of /Users that are    *)
(* not on the denylist; a placeholder pattern is expanded into one         *)
(* pattern for each of these users, in that order, and the expansions are  *)
(* processed in that order.                                                *)
(***************************************************************************)
C13_Denylist ==
    { <<"D","e","f","a","u","l","t">>,
      <<"D","e","f","a","u","l","t"," ","U","s","e","r">>,
      <<"P","u","b","l","i","c">>,
      <<"A","l","l"," ","U","s","e","r","s">>,
      <<"d","e","s","k","t","o","p",".","i","n","i">>,
      <<".">>, <<".",".">>,
      <<"$","R","e","c","y","c","l","e",".","B","i","n">> }

C13_NeedsUsers == \E k \in 1..Len(patterns) : HasUsersPlaceholder(patterns[k])

\* the directory lines of /Users, that is of the first directory line of the
\* root listing named Users
C13_UsersListing ==
    LET root == Fls(vol, None)
        at == {k \in 1..Len(root) : root[k].kind = "d/d" /\ root[k].name = N_Users}
    IN IF at = {} THEN <<>>
       ELSE Fls(vol, root[CHOOSE k \in at : \A j \in at : k <= j].inode)

C13_ExpectedUsers ==
    LET kept == SelectSeq(C13_UsersListing,
                          LAMBDA e : e.kind = "d/d" /\ e.name \notin C13_Denylist)
    IN [k \in 1..Len(kept) |-> kept[k].name]

C13_Expanded(dir, user) ==
    [i \in 1..Len(dir) |->
        IF i > 1 /\ dir[i] = Star /\ dir[i - 1] = N_Users THEN user ELSE dir[i]]

C13_UsersEnumeratedOnce ==
    /\ enumerations <= 1
    /\ ~C13_NeedsUsers => enumerations = 0
    /\ (C13_NeedsUsers /\ (attempted # {} \/ sink # <<>> \/ pi > 1 \/ pc \in {"loop", "task"}))
          => enumerations = 1
    /\ (enumerations = 1 /\ pc \in {"loop", "task", "search", "extract", "returned"})
          => user_folders = C13_ExpectedUsers
    /\ (pc \in {"task", "search", "extract", "raise"} /\ HasUsersPlaceholder(patterns[pi]))
          => /\ Len(tasks) = Len(user_folders)
             /\ \A k \in 1..Len(tasks) :
                   /\ tasks[k].pat.file = patterns[pi].file
                   /\ tasks[k].pat.dir = C13_Expanded(patterns[pi].dir, user_folders[k])
    /\ pc \in {"search", "extract", "raise"}
          => /\ cur.task = <<pi, ti>>
             /\ cur.pat = tasks[ti].pat
             /\ \A k \in 1..Len(pat_origin) : pat_origin[k][2] = ti

\* alice and bob each hold n.lnk: one enumeration, and the call returns
\* alice's file and then bob's, and nothing else
C13_Witness ==
    /\ pc = "returned"
    /\ patterns = <<P_UserLnk>>
    /\ enumerations = 1
    /\ user_folders = <<N_alice, N_bob>>
    /\ Len(Fls(vol, 20)) = 4
    /\ Len(extracted) = 2
    /\ outfs[extracted[1]].src = 110
    /\ outfs[extracted[2]].src = 111
    /\ origin[1][2] = 1 /\ origin[2][2] = 2

(***************************************************************************)
(* C14: every entry matched by the listing or the search is handed to the  *)
(* content extractor exactly once, whether its content identifier has two  *)
(* or three numbers: while the matches are being extracted, icat has been  *)
(* run once for each match already passed, in their order.                 *)
(***************************************************************************)
C14_IcatCalls == SelectSeq(calls, LAMBDA c : c.tool = "icat")

C14_EveryMatchExtractedOnce ==
    pc = "extract" =>
        /\ Len(C14_IcatCalls) = mi - 1
        /\ \A k \in 1..Len(C14_IcatCalls) : C14_IcatCalls[k].arg = matches[k].inode

(***************************************************************************)
(* C15: when _extract_pattern is entered for a pattern whose directory     *)
(* portion does not resolve, it lists no directory for matches and         *)
(* extracts nothing, the last message on the progress sink is the          *)
(* path-not-found message, no path is added to the result and no           *)
(* exception is raised.                                                    *)
(***************************************************************************)
C15_Step ==
    (cur'.task # cur.task /\ cur'.inode = None) =>
        /\ pc' \notin {"raise", "raised"}
        /\ Len(sink') > Len(sink)
        /\ sink'[Len(sink')] = "not_found"
        /\ \A k \in 1..Len(calls') : calls'[k].fn = "_find_inode_by_path"
        /\ extracted' = extracted
        /\ pat_extracted' = <<>>
        /\ outfs' = outfs

C15_UnresolvedPatternYieldsNothing == [][C15_Step]_vars

(***************************************************************************)
(* C16: when the introspection tool is missing or unusable, constructing   *)
(* the engine fails: the construction does not complete, so there is no    *)
(* engine on which extract_files runs with a fallback offset.              *)
(***************************************************************************)
C16_ConstructionFailsWithoutTool == ~tool_ok => ppc # "done"

(***************************************************************************)
(* C19: the partition lister is run exactly once for an engine, during     *)
(* its construction and before any directory listing; once the             *)
(* construction is over partition_offset does not change, and every fls    *)
(* and icat invocation is given that offset.                               *)
(***************************************************************************)
C19_Inv ==
    /\ mmls_calls <= 1
    /\ ppc # "new" => mmls_calls = 1
    /\ pc \notin {"start", "blocked"} => ppc = "done"
    /\ \A k \in 1..Len(calls) :
          IF calls[k].tool = "mmls"
          THEN k = 1 /\ calls[k].off = None
          ELSE /\ ppc = "done"
               /\ mmls_calls = 1
               /\ calls[k].off = partition_offset

C19_Step ==
    ppc = "done" =>
        /\ ppc' = "done"
        /\ partition_offset' = partition_offset
        /\ mmls_calls' = mmls_calls

C19_OffsetSelectedOnce == []C19_Inv /\ [][C19_Step]_vars

\* an extraction under way on the partition at sector 2048: directories
\* have been listed and a file extracted, all at that offset
C19_Witness ==
    /\ pc = "extract"
    /\ partition_offset = 2048
    /\ mmls_calls = 1
    /\ \E j, k \in 1..Len(calls) :
          /\ calls[j].tool = "fls" /\ calls[j].off = 2048
          /\ calls[k].tool = "icat" /\ calls[k].off = 2048
    /\ last.calls >= 2

(***************************************************************************)
(* C20: _find_inode_by_path lists the root without an identifier for the   *)
(* first segment and then one directory for each further segment, the one  *)
(* found for the segment before; at the first segment without a matching   *)
(* directory line it stops listing and returns None, never the identifier  *)
(* of the prefix; when every segment matches it returns the identifier     *)
(* found for the last one.                                                 *)
(***************************************************************************)
\* the identifier of the first directory line of the listing of `from` that
\* the code takes for the segment, None when there is none
C20_Found(from, seg) ==
    LET out == Fls(vol, from)
        hits == {k \in 1..Len(out) : SegmentMatches(seg, out[k])}
    IN IF hits = {} THEN None
       ELSE out[CHOOSE k \in hits : \A j \in hits : k <= j].inode

C20_ResolveCalls == SelectSeq(calls, LAMBDA c : c.fn = "_find_inode_by_path")

C20_OneListingPerSegment ==
    (cur.mode # "none" /\ cur.base # <<>>) =>
        LET segs == cur.base
            L == cur.listings
        IN /\ Len(L) >= 1
           /\ Len(L) <= Len(segs)
           /\ L[1] = None
           /\ \A k \in 1..Len(L) - 1 :
                 /\ C20_Found(L[k], segs[k]) # None
                 /\ L[k + 1] = C20_Found(L[k], segs[k])
           /\ cur.inode = C20_Found(L[Len(L)], segs[Len(L)])
           /\ cur.inode # None => Len(L) = Len(segs)
           /\ Len(C20_ResolveCalls) = Len(L)
           /\ \A k \in 1..Len(L) :
                 /\ calls[k] = FlsCmd(partition_offset, L[k], "_find_inode_by_path")

\* /a/*: the root and then /a (30) are listed, no directory of /a is named
\* "*", and the result is None, not 30
C20_Witness ==
    /\ cur.base = <<N_a, Star>>
    /\ cur.listings = <<None, 30>>
    /\ cur.inode = None
    /\ Len(calls) = 2
    /\ calls[2].arg = 30

(***************************************************************************)
(* C21: _search_files_in_directory and _search_recursive both return, in   *)
(* listing order, exactly the regular-file lines of the listing whose name *)
(* the filename pattern accepts: "*" accepts every name, "*.<ext>" the     *)
(* names that end with ".<ext>" when case is ignored, any other pattern    *)
(* the names equal to it when case is ignored; and the filename tests of   *)
(* the two methods agree on every pattern and name.                        *)
(***************************************************************************)
C21_SameIgnoringCase(a, b) ==
    /\ Len(a) = Len(b)
    /\ \A k \in 1..Len(a) : LowerChar(a[k]) = LowerChar(b[k])

C21_Accepts(pat, name) ==
    IF pat = <<"*">> THEN TRUE
    ELSE IF Len(pat) >= 2 /\ pat[1] = "*" /\ pat[2] = "."
    THEN /\ Len(name) >= Len(pat) - 1
         /\ C21_SameIgnoringCase(SubSeq(name, Len(name) - Len(pat) + 2, Len(name)),
                                 SubSeq(pat, 2, Len(pat)))
    ELSE C21_SameIgnoringCase(name, pat)

C21_SamePredicate ==
    /\ pc = "done" =>
          matches = SelectSeq(Fls(vol, 1),
                              LAMBDA e : e.kind = "r/r" /\ C21_Accepts(target_filename, e.name))
    /\ \A k \in 1..Len(Fls(vol, 1)) :
          /\ DirectNameMatch(target_filename, Fls(vol, 1)[k].name)
                <=> C21_Accepts(target_filename, Fls(vol, 1)[k].name)
          /\ RecursiveNameMatch(target_filename, Fls(vol, 1)[k].name)
                <=> C21_Accepts(target_filename, Fls(vol, 1)[k].name)

\* the recursive search with *.PF over a directory b.pf and a file A.PF
C21_Witness ==
    /\ pc = "done"
    /\ calls[1].fn = "search_dir"
    /\ target_filename = <<"*",".","P","F">>
    /\ Fls(vol, 1) = <<DirEntry(2, <<"b",".","p","f">>), FileEntry(100, <<"A",".","P","F">>)>>
    /\ matches = <<FileEntry(100, <<"A",".","P","F">>)>>

(***************************************************************************)
(* C22: _search_recursive returns its matches in depth-first pre-order     *)
(* along the listing order: the lines of a directory are taken in order, a *)
(* matching file is appended when its line is reached and the subtree of a *)
(* subdirectory is searched when its line is reached, before the later     *)
(* lines of its parent; so the result is a function of the listings, and   *)
(* at every moment of the search the matches found are a prefix of it.     *)
(***************************************************************************)
RECURSIVE C22_Dir(_, _, _, _, _, _)
RECURSIVE C22_Lines(_, _, _, _, _, _, _)
\* the matches m and the directories seen, after the subtree of inode
C22_Dir(v, inode, depth, target, md, st) ==
    IF depth > md \/ inode \in st.seen THEN st
    ELSE C22_Lines(v, inode, depth, target, md, 1, [st EXCEPT !.seen = @ \cup {inode}])

\* the same after the lines k, k + 1, ... of the listing of inode
C22_Lines(v, inode, depth, target, md, k, st) ==
    IF k > Len(Fls(v, inode)) THEN st
    ELSE LET e == Fls(v, inode)[k]
             s1 == IF e.kind = "r/r" /\ C21_Accepts(target, e.name)
                   THEN [st EXCEPT !.m = Append(@, e)]
                   ELSE st
             s2 == IF e.kind = "d/d" /\ ~e.star
                   THEN C22_Dir(v, e.inode, depth + 1, target, md, s1)
                   ELSE s1
         IN C22_Lines(v, inode, depth, target, md, k + 1, s2)

C22_PreOrderOf(v, start, target, md) ==
    C22_Dir(v, start, 0, target, md, [m |-> <<>>, seen |-> {}]).m

C22_PreOrder ==
    LET expected == C22_PreOrderOf(vol, 1, target_filename, max_depth)
    IN /\ Len(matches) <= Len(expected)
       /\ matches = SubSeq(expected, 1, Len(matches))
       /\ pc = "done" => matches = expected

\* directory 1 lists directory 3 before its own file and before directory
\* 2: the files of 3 and of 4 below it come first, then that of 1, then
\* that of 2
C22_Witness ==
    /\ pc = "done"
    /\ [k \in 1..Len(Fls(vol, 1)) |-> Fls(vol, 1)[k].inode] = <<3, 101, 2>>
    /\ [k \in 1..Len(matches) |-> matches[k].inode] = <<103, 104, 101, 102>>

(***************************************************************************)
(* C23: the destination of _extract_file is made from the last component   *)
(* of the name alone, with each of the characters < > : " / \ | ? *        *)
(* replaced by "_" (and, when that name exists, with the counter suffix):  *)
(* it holds none of these characters and is neither empty nor "." nor      *)
(* "..", so it names a direct child of output_dir; the same is true of     *)
(* every file in output_dir.                                               *)
(***************************************************************************)
C23_Forbidden == {"<", ">", ":", "\"", "/", "\\", "|", "?", "*"}

RECURSIVE C23_LastComponent(_)
C23_LastComponent(name) ==
    IF \E k \in 1..Len(name) : name[k] = "/"
    THEN C23_LastComponent(Tail(name))
    ELSE name

C23_Replaced(name) == [k \in 1..Len(name) |-> IF name[k] \in C23_Forbidden THEN "_" ELSE name[k]]

C23_DirectChild(path) ==
    /\ \A k \in 1..Len(path) : path[k] \notin C23_Forbidden
    /\ path \notin {<<>>, <<".">>, <<".", ".">>}

C23_SafeDestination ==
    /\ last.calls > 0 =>
          LET want == C23_Replaced(C23_LastComponent(last.filename))
          IN /\ C23_DirectChild(last.path)
             /\ \/ last.path = want
                \/ \E k \in 1..20 :
                      last.path = splitext(want)[1] \o <<"_">> \o str(k) \o splitext(want)[2]
    /\ \A n \in DOMAIN outfs : C23_DirectChild(n)

\* the stream name a:b, extracted where a_b exists, goes to a_b_1
C23_Witness ==
    /\ last.filename = <<"a",":","b">>
    /\ last.path = <<"a","_","b","_","1">>
    /\ last.returned
    /\ last.path \in DOMAIN outfs

(***************************************************************************)
(* C24: during a call of extract_files the result only grows: a step       *)
(* leaves `extracted` as it is or adds paths at its end, the paths a       *)
(* pattern has extracted so far are passed on to the result in full when   *)
(* the pattern ends, by its end or by an exception, and the files named in *)
(* the result or extracted so far by the pattern stay in output_dir with   *)
(* the content they have.                                                  *)
(***************************************************************************)
C24_Prefix(a, b) == Len(a) <= Len(b) /\ a = SubSeq(b, 1, Len(a))

C24_Step ==
    /\ C24_Prefix(extracted, extracted')
    /\ \/ C24_Prefix(pat_extracted, pat_extracted')
       \/ /\ pat_extracted' = <<>>
          /\ extracted' = extracted \o pat_extracted
    /\ (pc = "raise" /\ pc' \in {"task", "loop"}) => extracted' = extracted \o pat_extracted
    /\ \A k \in 1..Len(extracted) :
          /\ extracted[k] \in DOMAIN outfs'
          /\ outfs'[extracted[k]] = outfs[extracted[k]]
    /\ \A k \in 1..Len(pat_extracted) :
          /\ pat_extracted[k] \in DOMAIN outfs'
          /\ outfs'[pat_extracted[k]] = outfs[pat_extracted[k]]

C24_ResultOnlyGrows == [][C24_Step]_vars

\* /Windows/Prefetch/*.pf alone: A.PF was extracted, then an exception
\* ended the pattern and the handler logged it; the call returned A.PF
C24_Witness ==
    /\ pc = "returned"
    /\ patterns = <<P_Prefetch>>
    /\ sink # <<>>
    /\ sink[Len(sink)] = "error"
    /\ Len(extracted) = 1
    /\ outfs[extracted[1]].src = 100
    /\ mi = 1
    /\ last.calls = 1

(***************************************************************************)
(* C25: the bounded search is complete within its bound: when it returns,  *)
(* every regular-file line with a matching name, in every directory that   *)
(* is at most max_depth steps from the start directory along its shortest  *)
(* path, is among the matches, also when the directory can be reached      *)
(* along several paths of different lengths.                               *)
(***************************************************************************)
C25_CompleteWithinBound ==
    pc = "done" =>
        \A d \in Within(vol, 1, max_depth) :
            \A k \in 1..Len(Fls(vol, d)) :
                LET e == Fls(vol, d)[k]
                IN (e.kind = "r/r" /\ C21_Accepts(target_filename, e.name))
                       => \E j \in 1..Len(matches) : matches[j] = e

(***************************************************************************)
(* C26: in the recursive mode the directory segments after the first       *)
(* wildcard take no part: the search starts at the directory named by the  *)
(* segments before the first wildcard, and its matches are those of the    *)
(* search of that directory for the filename alone, each in a directory    *)
(* within the depth bound, whatever the path to it; the files extracted    *)
(* for the pattern are taken from these matches.  So /a/*/y/h extracts     *)
(* /a/x/y/z/h as well as /a/x/y/h.                                         *)
(***************************************************************************)
C26_LiteralSegmentsIgnored ==
    /\ cur.mode = "recursive" =>
          /\ cur.base = PrefixBeforeFirstStar(cur.pat.dir)
          /\ cur.inode = find_inode_by_path(vol, PrefixBeforeFirstStar(cur.pat.dir))
    /\ (pc = "extract" /\ cur.mode = "recursive") =>
        /\ matches = C22_PreOrderOf(vol, cur.inode, cur.pat.file, cur.depth)
        /\ \A k \in 1..Len(matches) :
              \E d \in Within(vol, cur.inode, cur.depth) : Holds(vol, d, matches[k])
        /\ \A k \in 1..Len(pat_origin) :
              /\ pat_origin[k][3] < mi
              /\ pat_origin[k][4] = matches[pat_origin[k][3]].inode
              /\ outfs[pat_extracted[k]].src = pat_origin[k][4]

\* /a/*/y/h: the file 120 of /a/x/y and the file 121 of /a/x/y/z are both
\* matched and both extracted
C26_Witness ==
    /\ pc = "extract"
    /\ cur.pat = P_OneMiddle
    /\ [k \in 1..Len(matches) |-> matches[k].inode] = <<120, 121>>
    /\ Holds(vol, 33, matches[2])
    /\ Len(pat_extracted) = 2
    /\ outfs[pat_extracted[1]].src = 120
    /\ outfs[pat_extracted[2]].src = 121

(***************************************************************************)
(* C28: when extract_files has returned, every file the call created in    *)
(* output_dir is in the returned list: an extraction that failed has left  *)
(* no file, empty or not, at its destination.                              *)
(***************************************************************************)
\* the files of output_dir that the call wrote (the files of earlier runs
\* have no source in the image)
C28_Created == {n \in DOMAIN outfs : outfs[n].src # 0}

C28_NoOrphanFiles ==
    pc = "returned" => \A n \in C28_Created : \E k \in 1..Len(extracted) : extracted[k] = n

(***************************************************************************)
(* C29: a path without a segment ("" or "/") resolves to None and no       *)
(* directory is listed for it.  So a pattern whose directory portion is    *)
(* the root, or whose first directory segment is the wildcard, has nothing *)
(* listed and nothing extracted, the message handed to the progress sink   *)
(* is the path-not-found message, and no path of the result comes from     *)
(* such a pattern.                                                         *)
(***************************************************************************)
C29_NoSegment(p) ==
    \/ p.dir = <<>>
    \/ p.dir[1] = <<"*">> /\ Len(p.dir) > 1

C29_Inv ==
    /\ find_inode_by_path(vol, <<>>) = None
    /\ find_inode_by_path(vol, << <<>> >>) = None
    /\ find_inode_listings(vol, <<>>) = <<>>
    /\ \A k \in 1..Len(origin) : ~C29_NoSegment(patterns[origin[k][1]])
    /\ \A k \in 1..Len(pat_origin) : ~C29_NoSegment(patterns[pat_origin[k][1]])

C29_Step ==
    (cur'.task # cur.task /\ C29_NoSegment(cur'.pat)) =>
        /\ cur'.base = <<>>
        /\ cur'.inode = None
        /\ cur'.listings = <<>>
        /\ calls' = <<>>
        /\ extracted' = extracted
        /\ pat_extracted' = <<>>
        /\ outfs' = outfs
        /\ \/ sink' = Append(sink, "not_found") /\ pc' \in {"loop", "task"}
           \/ sink' = sink /\ sink_fail_at # 0 /\ pc' = "raise"

C29_RootPathUnresolved == []C29_Inv /\ [][C29_Step]_vars

\* /b alone, on a volume whose root holds the file b: the call has returned
\* nothing and has said that the path was not found
C29_Witness ==
    /\ pc = "returned"
    /\ patterns = <<P_RootFile>>
    /\ Fls(vol, None)[2] = FileEntry(40, <<"b">>)
    /\ cur.task = <<1, 1>>
    /\ sink = <<"searching", "not_found">>
    /\ extracted = <<>>
    /\ outfs = [n \in {} |-> OldFile]

(***************************************************************************)
(* C30: the list returned by a call of extract_files holds no path twice:  *)
(* at every moment the paths extracted so far are different from each      *)
(* other and name different files, also when two names are turned into the *)
(* same file name or one entry is matched twice.                           *)
(***************************************************************************)
C30_NoDuplicatePaths ==
    LET all == extracted \o pat_extracted
    IN /\ \A j, k \in 1..Len(all) : j # k => all[j] # all[k]
       /\ Cardinality({all[k] : k \in 1..Len(all)}) = Len(all)
       /\ \A k \in 1..Len(all) : all[k] \in DOMAIN outfs

\* a:b and a_b, extracted in this order into an empty directory, are
\* returned as a_b and a_b_1
C30_Witness ==
    /\ pc = "returned"
    /\ [k \in 1..Len(origin) |-> origin[k][4]] = <<202, 203>>
    /\ extracted = << <<"a","_","b">>, <<"a","_","b","_","1">> >>
    /\ outfs[extracted[1]].src = 202
    /\ outfs[extracted[2]].src = 203

(***************************************************************************)
(* The specifications.                                                     *)
(***************************************************************************)
\* TSKCollector(image).extract_files(patterns, output_dir, log): the
\* construction of the engine and one call of extract_files.  The tools
\* stand in one directory: when they are missing neither mmls nor fls
\* prints anything.
Init ==
    /\ tool_ok \in BOOLEAN
    /\ mmls = IF tool_ok THEN ImageTable ELSE <<>>
    /\ li = 1
    /\ best_offset = None
    /\ best_size = 0
    /\ partition_offset = None
    /\ ppc = "new"
    /\ vol \in IF tool_ok THEN Volumes ELSE {VolSilent}
    /\ SearchIdle
    /\ pc = "start"
    /\ ExtractInit
    /\ NoCalls
    /\ WebIdle

Next ==
    \/ PartitionCall
    \/ PartitionScan
    \/ PartitionSelect
    \/ ToolHangs
    \/ Start
    \/ NextPattern
    \/ Return
    \/ BeginTask
    \/ SearchLine
    \/ SearchReturn
    \/ SearchFinish
    \/ ExtractFile
    \/ TaskDone
    \/ EnvRaise
    \/ HandleException

Spec == Init /\ [][Next]_vars

\* the construction of the engine: _find_main_partition
InitPartition ==
    /\ PartitionInit
    /\ vol = VolSilent
    /\ SearchIdle
    /\ pc = "new"
    /\ ExtractIdle
    /\ NoCalls
    /\ WebIdle

NextPartition == PartitionCall \/ PartitionScan \/ PartitionSelect

SpecPartition == InitPartition /\ [][NextPartition]_vars

\* _search_recursive alone
InitSearch ==
    /\ PartitionIdle
    /\ SearchInit
    /\ ExtractIdle
    /\ calls = <<FlsCmd(partition_offset, 1, "search_dir")>>
    /\ mmls_calls = 1
    /\ enumerations = 0
    /\ WebIdle

NextSearch == SearchLine \/ SearchReturn \/ SearchDone

SpecSearch == InitSearch /\ [][NextSearch]_vars

\* search_dir runs to its end: nothing suspends it
SpecSearchFair == SpecSearch /\ WF_vars(NextSearch)

\* extract_files(patterns, output_dir, log) on an engine already constructed,
\* with a progress sink that does not fail or that fails from its second
\* call on
InitNames ==
    /\ PartitionIdle
    /\ vol \in OddVolumes
    /\ SearchIdle
    /\ pc = "start"
    /\ patterns \in OddPatternLists
    /\ outfs \in OddOutDirs
    /\ mkdir_ok = TRUE
    /\ sink_fail_at \in {0, 2}
    /\ sink = <<>>
    /\ user_folders = <<>>
    /\ extracted = <<>>
    /\ pi = 1
    /\ tasks = <<>>
    /\ ti = 1
    /\ cur = NoTask
    /\ mi = 1
    /\ pat_extracted = <<>>
    /\ attempted = {}
    /\ origin = <<>>
    /\ pat_origin = <<>>
    /\ last = NoCall
    /\ faults = 0
    /\ calls = <<MmlsCmd>>
    /\ mmls_calls = 1
    /\ enumerations = 0
    /\ WebIdle

NextNames ==
    \/ Start
    \/ NextPattern
    \/ BeginTask
    \/ ExtractFile
    \/ TaskDone
    \/ HandleException
    \/ Return

SpecNames == InitNames /\ [][NextNames]_vars

\* _search_files_in_directory or _search_recursive, on one listing
InitMatch ==
    /\ PartitionIdle
    /\ MatchInit
    /\ ExtractIdle
    /\ calls = IF pc = "search" THEN <<FlsCmd(partition_offset, 1, "search_dir")>> ELSE <<>>
    /\ mmls_calls = 1
    /\ enumerations = 0
    /\ WebIdle

NextMatch == DirectSearch \/ SearchLine \/ SearchReturn \/ SearchDone

SpecMatch == InitMatch /\ [][NextMatch]_vars

\* the web front end with the start_processing messages of one image
InitWeb ==
    /\ PartitionIdle
    /\ vol = VolSilent
    /\ SearchIdle
    /\ pc = "new"
    /\ ExtractIdle
    /\ NoCalls
    /\ WebInit

NextWeb ==
    \/ Receive
    \/ \E t \in 1..MaxStarts : CheckExisting(t)
    \/ \E t \in 1..MaxStarts : StartPipeline(t)
    \/ \E t \in 1..MaxStarts : ChoosePath(t)
    \/ \E t \in 1..MaxStarts : ToolStart(t)
    \/ \E t \in 1..MaxStarts : ToolFinish(t)
    \/ \E t \in 1..MaxStarts : PipelineDone(t)

SpecWeb == InitWeb /\ [][NextWeb]_vars

(***************************************************************************)
(* C17: every external invocation is bounded by a timeout: a call that     *)
(* waits for a tool that does not complete can always go on (the timeout   *)
(* expires and the invocation counts as having printed nothing).           *)
(***************************************************************************)
C17_InvocationsTimeOut == pc = "blocked" => ENABLED Next

====
